---- MODULE Spec2Model ----
(***************************************************************************)
(* Model of the Reddit data enrichment pipeline:                           *)
(*   src/src/utils.py            TextPreprocessor, DataProcessor,          *)
(*                               MetricsCalculator, DataValidator          *)
(*   src/src/data_processor.py   RedditDataProcessor                       *)
(*   src/tests/test_minimal_sentiment.py   SentimentAnalyzer               *)
(*                                                                         *)
(* A DataFrame is one mutable object.  Python passes it by reference, so   *)
(* the caller's dataset and the local name df of every stage denote the    *)
(* same object: the variable obj.  Strings are sequences of one-character  *)
(* strings.  Floats with two decimals are integers in hundredths.          *)
(***************************************************************************)
EXTENDS Integers, Sequences, FiniteSets, TLC

VARIABLES
    obj,        \* the DataFrame object the caller passed (shared by reference)
    df0,        \* snapshot of obj when the current call was entered
    pc,         \* position of the running call
    op,         \* which operation the caller invoked
    fault,      \* where the environment makes a step raise an Exception
    useTransformers, \* SentimentAnalyzer.use_transformers
    results,    \* sentiment_results: the list returned by analyze_texts_batch
    invoked,    \* for each text index, whether the classifier was invoked
    texts,      \* the list handed to analyze_texts_batch
    outcomes,   \* what the classifier does for each text of the batch
    executed,   \* the stages that have run in the current call, in order
    ret,        \* the value returned to the caller
    err,        \* the exception raised to the caller ("none" when none)
    cache,      \* CacheManager.cache
    cache_times, \* CacheManager.cache_times
    now,        \* datetime.now(), in seconds
    insights    \* the insights dictionary handed to generate_report

vars == <<obj, df0, pc, op, fault, useTransformers, results, invoked, texts,
          outcomes, executed, ret, err, cache, cache_times, now, insights>>

cacheVars == <<cache, cache_times, now>>

(***************************************************************************)
(* Bounds                                                                  *)
(***************************************************************************)
MaxRows == 2
MaxTexts == 2

(***************************************************************************)
(* Generic helpers                                                         *)
(***************************************************************************)
Range(s) == {s[i] : i \in DOMAIN s}

SeqsUpTo(S, n) == UNION {[1..k -> S] : k \in 0..n}

RECURSIVE Concat(_)
Concat(ss) == IF ss = <<>> THEN <<>> ELSE Head(ss) \o Concat(Tail(ss))

(***************************************************************************)
(* Characters.  \w is letters, digits and underscore; \s is whitespace.    *)
(***************************************************************************)
LowerSeq ==
    <<"a", "b", "c", "d", "e", "f", "g", "h", "i", "j", "k", "l", "m", "n",
    "o", "p", "q", "r", "s", "t", "u", "v", "w", "x", "y", "z">>
UpperSeq ==
    <<"A", "B", "C", "D", "E", "F", "G", "H", "I", "J", "K", "L", "M", "N",
    "O", "P", "Q", "R", "S", "T", "U", "V", "W", "X", "Y", "Z">>
LowerLetters == {LowerSeq[i] : i \in DOMAIN LowerSeq}
UpperLetters == {UpperSeq[i] : i \in DOMAIN UpperSeq}
DigitsAndUnderscore == {"1", "_"}
Spaces == {" "}
Punct == {"$", "@", ".", "/", ":", "!"}
Alphabet ==
    LowerLetters \cup UpperLetters \cup DigitsAndUnderscore \cup Spaces \cup Punct

IsLetter(c) == c \in LowerLetters \cup UpperLetters
IsWord(c) == IsLetter(c) \/ c \in DigitsAndUnderscore
IsSpace(c) == c \in Spaces

LowerChar(c) ==
    IF c \in UpperLetters
    THEN LowerSeq[CHOOSE i \in DOMAIN UpperSeq : UpperSeq[i] = c]
    ELSE c

\* str.lower()
Lower(s) == [i \in DOMAIN s |-> LowerChar(s[i])]

\* s[i..] starts with the literal p
StartsAt(s, i, p) ==
    /\ i + Len(p) - 1 <= Len(s)
    /\ \A k \in 1..Len(p) : s[i + k - 1] = p[k]

\* the index just past the run of non-space characters starting at i
RECURSIVE EndOfNonSpace(_, _)
EndOfNonSpace(s, i) ==
    IF i > Len(s) \/ IsSpace(s[i]) THEN i ELSE EndOfNonSpace(s, i + 1)

\* a URL pattern that knows only https
RECURSIVE StripUrlsHttpsOnly(_, _)
StripUrlsHttpsOnly(s, i) ==
    IF i > Len(s) THEN <<>>
    ELSE IF StartsAt(s, i, <<"h", "t", "t", "p", "s">>) /\ EndOfNonSpace(s, i + 5) > i + 5
         THEN StripUrlsHttpsOnly(s, EndOfNonSpace(s, i + 5))
    ELSE <<s[i]>> \o StripUrlsHttpsOnly(s, i + 1)

\* re.sub(r'http\S+|www\S+|https\S+', '', text): leftmost match, first
\* alternative that matches, \S+ greedy and at least one character long
RECURSIVE StripUrlsFrom(_, _)
StripUrlsFrom(s, i) ==
    IF i > Len(s) THEN <<>>
    ELSE IF StartsAt(s, i, <<"h", "t", "t", "p">>) /\ EndOfNonSpace(s, i + 4) > i + 4
         THEN StripUrlsFrom(s, EndOfNonSpace(s, i + 4))
    ELSE IF StartsAt(s, i, <<"w", "w", "w">>) /\ EndOfNonSpace(s, i + 3) > i + 3
         THEN StripUrlsFrom(s, EndOfNonSpace(s, i + 3))
    ELSE <<s[i]>> \o StripUrlsFrom(s, i + 1)

StripUrls(s) == StripUrlsFrom(s, 1)

\* re.sub(r'[^\w\s]', '', text)
StripSpecial(s) == SelectSeq(s, LAMBDA c : IsWord(c) \/ IsSpace(c))

\* str.split(): the maximal runs of non-space characters
RECURSIVE SplitFrom(_, _)
SplitFrom(s, i) ==
    IF i > Len(s) THEN <<>>
    ELSE IF IsSpace(s[i]) THEN SplitFrom(s, i + 1)
    ELSE <<SubSeq(s, i, EndOfNonSpace(s, i) - 1)>> \o SplitFrom(s, EndOfNonSpace(s, i))

Split(s) == SplitFrom(s, 1)

\* ' '.join(words)
RECURSIVE Join(_)
Join(ws) ==
    IF ws = <<>> THEN <<>>
    ELSE IF Len(ws) = 1 THEN ws[1]
    ELSE ws[1] \o <<" ">> \o Join(Tail(ws))

\* str.strip() == ""
IsBlank(s) == \A i \in DOMAIN s : IsSpace(s[i])

(***************************************************************************)
(* Cells of the title and text columns.  k is the kind of Python value:    *)
(*   "str"  a string s                                                     *)
(*   "nan"  None / NaN                                                     *)
(*   "num"  a number (no .lower() method)                                  *)
(*   "list" a list of several elements (pd.isna gives an array, whose      *)
(*          truth value raises ValueError)                                 *)
(***************************************************************************)
StrCell(s) == [k |-> "str", s |-> s]
NanCell == [k |-> "nan", s |-> <<>>]
NumCell == [k |-> "num", s |-> <<>>]
ListCell == [k |-> "list", s |-> <<>>]

\* TextPreprocessor.clean_text: raised means the exception left the function
clean_text(cell) ==
    IF cell.k = "list" THEN [raised |-> TRUE, s |-> <<>>]
    ELSE IF cell.k = "nan" THEN [raised |-> FALSE, s |-> <<>>]
    ELSE IF cell.k = "num" THEN [raised |-> FALSE, s |-> <<>>]
    ELSE [raised |-> FALSE,
          s |-> Join(Split(StripSpecial(StripUrls(Lower(cell.s)))))]


(***************************************************************************)
(* extract_mentions / extract_tickers.  re.findall scans left to right and *)
(* resumes after each match.  list(set(...)) drops the duplicates and has  *)
(* no defined order: ListOfSet fixes one order, and no property reads it.  *)
(***************************************************************************)
\* the index just past the run of word characters starting at i
RECURSIVE EndOfWord(_, _)
EndOfWord(s, i) ==
    IF i > Len(s) \/ ~IsWord(s[i]) THEN i ELSE EndOfWord(s, i + 1)

\* the index just past the run of letters starting at i
RECURSIVE EndOfLetters(_, _)
EndOfLetters(s, i) ==
    IF i > Len(s) \/ ~IsLetter(s[i]) THEN i ELSE EndOfLetters(s, i + 1)

Min(a, b) == IF a <= b THEN a ELSE b
Max(a, b) == IF a >= b THEN a ELSE b

\* list(set(xs)) for the elements S of xs
RECURSIVE ListOfSet(_)
ListOfSet(S) ==
    IF S = {} THEN <<>>
    ELSE LET x == CHOOSE y \in S : TRUE IN <<x>> \o ListOfSet(S \ {x})

\* re.findall(r'@(\w+)', text): the captured groups, in order of position
RECURSIVE FindMentionsFrom(_, _)
FindMentionsFrom(s, i) ==
    IF i > Len(s) THEN <<>>
    ELSE IF s[i] = "@" /\ EndOfWord(s, i + 1) > i + 1
         THEN <<SubSeq(s, i + 1, EndOfWord(s, i + 1) - 1)>>
                  \o FindMentionsFrom(s, EndOfWord(s, i + 1))
    ELSE FindMentionsFrom(s, i + 1)

\* the set of the mentions of a string
extract_mentions(s) == Range(FindMentionsFrom(s, 1))

\* an extract_mentions that returns the matches without set()
MentionsWithDuplicates(cell) ==
    IF cell.k # "str" THEN <<>> ELSE FindMentionsFrom(cell.s, 1)

\* TextPreprocessor.extract_mentions(text): the list returned; re.findall
\* raises TypeError on a value that is no string, and the handler returns []
extract_mentions_list(cell) ==
    IF cell.k # "str" THEN <<>> ELSE ListOfSet(extract_mentions(cell.s))

MaxTickerLen == 5
MinBareTickerLen == 2

\* re.findall(r'\$([A-Za-z]{1,5})', text): greedy, at most five letters
RECURSIVE FindDollarFrom(_, _)
FindDollarFrom(s, i) ==
    IF i > Len(s) THEN <<>>
    ELSE IF s[i] = "$" /\ EndOfLetters(s, i + 1) > i + 1
         THEN LET e == Min(EndOfLetters(s, i + 1), i + 1 + MaxTickerLen)
              IN <<SubSeq(s, i + 1, e - 1)>> \o FindDollarFrom(s, e)
    ELSE FindDollarFrom(s, i + 1)

DollarTickers(s) == Range(FindDollarFrom(s, 1))

\* re.findall(r'\b([A-Z]{2,5})\b', text): \b before a capital is the start
\* of a run of word characters and \b after one is its end, so a match is a
\* whole run of word characters made of two to five capitals
RECURSIVE FindBareFrom(_, _)
FindBareFrom(s, i) ==
    IF i > Len(s) THEN <<>>
    ELSE IF /\ IsWord(s[i])
            /\ (i = 1 \/ ~IsWord(s[i - 1]))
            /\ EndOfWord(s, i) - i \in MinBareTickerLen..MaxTickerLen
            /\ \A k \in i..(EndOfWord(s, i) - 1) : s[k] \in UpperLetters
         THEN <<SubSeq(s, i, EndOfWord(s, i) - 1)>>
                  \o FindBareFrom(s, EndOfWord(s, i))
    ELSE FindBareFrom(s, i + 1)

BareTickers(s) == Range(FindBareFrom(s, 1))

\* a ticker search that knows only the '$' pattern
DollarMatchesOnly(s) == FindDollarFrom(s, 1)

\* tickers = findall(...); tickers.extend(findall(...))
TickerMatches(s) == FindDollarFrom(s, 1) \o FindBareFrom(s, 1)

extract_tickers(s) == Range(TickerMatches(s))

\* TextPreprocessor.extract_tickers(text): the list returned
extract_tickers_list(cell) ==
    IF cell.k # "str" THEN <<>> ELSE ListOfSet(extract_tickers(cell.s))

(***************************************************************************)
(* DataFrames.  frame = FALSE is a value that is no DataFrame (None).      *)
(* cols is the column index in order, dtype the dtype kind of each column  *)
(* ("int", "float", "bool", "datetime", "object"), rows the rows, each a   *)
(* function from the column names to the row's values.                     *)
(***************************************************************************)
NotAFrame == [frame |-> FALSE, cols |-> <<>>, dtype |-> <<>>, rows |-> <<>>]

HasCol(d, c) == c \in Range(d.cols)

NRows(d) == Len(d.rows)

Column(d, c) == [i \in DOMAIN d.rows |-> d.rows[i][c]]

\* df[c] = vals : pandas assigns in place; a new column goes last
SetCol(d, c, dt, vals) ==
    [frame |-> d.frame,
     cols  |-> IF HasCol(d, c) THEN d.cols ELSE Append(d.cols, c),
     dtype |-> [x \in Range(d.cols) \cup {c} |-> IF x = c THEN dt ELSE d.dtype[x]],
     rows  |-> [i \in DOMAIN d.rows |->
                  [x \in Range(d.cols) \cup {c} |->
                      IF x = c THEN vals[i] ELSE d.rows[i][x]]]]

DropCol(d, c) ==
    [frame |-> d.frame,
     cols  |-> SelectSeq(d.cols, LAMBDA x : x # c),
     dtype |-> [x \in Range(d.cols) \ {c} |-> d.dtype[x]],
     rows  |-> [i \in DOMAIN d.rows |-> [x \in Range(d.cols) \ {c} |-> d.rows[i][x]]]]

required_columns ==
    <<"title", "text", "score", "created_utc", "num_comments", "upvote_ratio">>

\* pd.api.types.is_numeric_dtype / is_float_dtype / is_datetime64_any_dtype
is_numeric_dtype(dt) == dt \in {"int", "float", "bool"}
is_float_dtype(dt) == dt = "float"
is_datetime64_any_dtype(dt) == dt = "datetime"

\* Series.isnull().any()
AnyNull(d, c) == \E i \in DOMAIN d.rows : d.rows[i][c].k = "nan"

\* ValidateChecks without the float check of upvote_ratio
ValidateChecksNoFloat(d) ==
    IF ~d.frame THEN "exc"
    ELSE IF ~(\A i \in DOMAIN required_columns : HasCol(d, required_columns[i]))
         THEN "fail"
    ELSE IF ~is_numeric_dtype(d.dtype["score"]) THEN "fail"
    ELSE IF ~is_datetime64_any_dtype(d.dtype["created_utc"]) THEN "fail"
    ELSE IF ~is_numeric_dtype(d.dtype["num_comments"]) THEN "fail"
    ELSE IF AnyNull(d, "title") THEN "fail"
    ELSE "ok"

\* the try block of validate_reddit_data: "ok" (return True), "fail"
\* (return False) or "exc" (a check raised: anything that is no DataFrame
\* has no .columns)
ValidateChecks(d) ==
    IF ~d.frame THEN "exc"
    ELSE IF ~(\A i \in DOMAIN required_columns : HasCol(d, required_columns[i]))
         THEN "fail"
    ELSE IF ~is_numeric_dtype(d.dtype["score"]) THEN "fail"
    ELSE IF ~is_datetime64_any_dtype(d.dtype["created_utc"]) THEN "fail"
    ELSE IF ~is_numeric_dtype(d.dtype["num_comments"]) THEN "fail"
    ELSE IF ~is_float_dtype(d.dtype["upvote_ratio"]) THEN "fail"
    ELSE IF AnyNull(d, "title") THEN "fail"
    ELSE "ok"

\* an except clause that lets the exception through
ValidateOnExceptionPropagates == [raised |-> TRUE, value |-> FALSE]

\* the except clause of validate_reddit_data
ValidateOnException == [raised |-> FALSE, value |-> FALSE]

\* DataValidator.validate_reddit_data: the outcome and the dataset after it
validate_reddit_data(d) ==
    LET c == ValidateChecks(d)
    IN  [out |-> IF c = "exc" THEN ValidateOnException
                 ELSE [raised |-> FALSE, value |-> (c = "ok")],
         df  |-> d]


(***************************************************************************)
(* DataProcessor.calculate_engagement_metrics.  created_utc values are     *)
(* hours since Monday 00:00 of ISO week 1; upvote_ratio and                *)
(* engagement_score are in hundredths.                                     *)
(***************************************************************************)
DayNames ==
    <<"Monday", "Tuesday", "Wednesday", "Thursday", "Friday", "Saturday", "Sunday">>

HourOf(t) == t % 24
DayOf(t) == DayNames[((t \div 24) % 7) + 1]
WeekOf(t) == (t \div 168) + 1

\* df[c] evaluates and supports arithmetic
Arith(d, c) == d.frame /\ HasCol(d, c) /\ is_numeric_dtype(d.dtype[c])
\* df[c].dt evaluates
HasDt(d, c) == d.frame /\ HasCol(d, c) /\ is_datetime64_any_dtype(d.dtype[c])

\* an engagement score that weighs a comment like an upvote
EngagementScoreUnweighted(r) == (r["score"] + r["num_comments"]) * r["upvote_ratio"]

\* (df['score'] * 1.0 + df['num_comments'] * 2.0) * df['upvote_ratio']
EngagementScore(r) == (r["score"] * 1 + r["num_comments"] * 2) * r["upvote_ratio"]

\* the try block of calculate_engagement_metrics run on the object d with
\* the environment fault f: whether it raised, and the object afterwards
EngagementBody(d, f) ==
    IF f = "engage1" \/ ~(Arith(d, "score") /\ Arith(d, "num_comments")
                           /\ Arith(d, "upvote_ratio"))
    THEN [exc |-> TRUE, df |-> d]
    ELSE LET d1 == SetCol(d, "engagement_score", "float",
                          [i \in DOMAIN d.rows |-> EngagementScore(d.rows[i])])
         IN  IF f = "engage2" \/ ~HasDt(d1, "created_utc")
             THEN [exc |-> TRUE, df |-> d1]
             ELSE LET d2 == SetCol(d1, "hour_of_day", "int",
                          [i \in DOMAIN d.rows |-> HourOf(d.rows[i]["created_utc"])])
                      d3 == SetCol(d2, "day_of_week", "object",
                          [i \in DOMAIN d.rows |-> DayOf(d.rows[i]["created_utc"])])
                  IN  [exc |-> FALSE, df |-> d3]

\* calculate_engagement_metrics without its except clause
EngagementPropagates(d, f) ==
    [raised |-> EngagementBody(d, f).exc, df |-> EngagementBody(d, f).df]

\* calculate_engagement_metrics: both the normal return and the except
\* clause return the name df, i.e. the object the caller passed
calculate_engagement_metrics(d, f) ==
    [raised |-> FALSE, df |-> EngagementBody(d, f).df]

(***************************************************************************)
(* Input datasets                                                          *)
(***************************************************************************)
Post(title, text, score, ncomments, ratio, created) ==
    [c \in Range(required_columns) |->
        CASE c = "title" -> title
          [] c = "text" -> text
          [] c = "score" -> score
          [] c = "num_comments" -> ncomments
          [] c = "upvote_ratio" -> ratio
          [] c = "created_utc" -> created]

SamplePosts ==
    { Post(StrCell(<<"A", "B", " ", "w", "w", "w", ".", "a">>),
           StrCell(<<"$", "A", "B", " ", "@", "b", "a", "t">>), 100, 50, 95, 2),
      Post(StrCell(<<"b", "a", "t", " ", "b", "a", "t">>), NanCell, 150, 75, 88, 47),
      Post(StrCell(<<".">>), StrCell(<<" ">>), 75, 25, 92, 2),
      Post(NumCell, ListCell, 75, 0, 100, 170),
      Post(NanCell, StrCell(<<"b", "a", "t">>), 0, 1, 50, 50) }

GoodDtypes ==
    [c \in Range(required_columns) |->
        CASE c \in {"title", "text"} -> "object"
          [] c \in {"score", "num_comments"} -> "int"
          [] c = "upvote_ratio" -> "float"
          [] c = "created_utc" -> "datetime"]

Frame(rows) ==
    [frame |-> TRUE, cols |-> required_columns, dtype |-> GoodDtypes, rows |-> rows]

WithDtype(d, c, dt) == [d EXCEPT !.dtype[c] = dt]

\* one dataset per defect of the shape
Defects ==
    {[kind |-> "none", col |-> "", dt |-> ""], [kind |-> "not_frame", col |-> "", dt |-> ""]}
    \cup {[kind |-> "missing", col |-> c, dt |-> ""] : c \in Range(required_columns)}
    \cup {[kind |-> "dtype", col |-> "score", dt |-> "object"],
          [kind |-> "dtype", col |-> "score", dt |-> "float"],
          [kind |-> "dtype", col |-> "num_comments", dt |-> "object"],
          [kind |-> "dtype", col |-> "created_utc", dt |-> "float"],
          [kind |-> "dtype", col |-> "upvote_ratio", dt |-> "int"]}

Shaped(rows, x) ==
    CASE x.kind = "none" -> Frame(rows)
      [] x.kind = "not_frame" -> NotAFrame
      [] x.kind = "missing" -> DropCol(Frame(rows), x.col)
      [] x.kind = "dtype" -> WithDtype(Frame(rows), x.col, x.dt)

Datasets == {Shaped(rows, x) : rows \in SeqsUpTo(SamplePosts, MaxRows), x \in Defects}


(***************************************************************************)
(* SentimentAnalyzer (src/tests/test_minimal_sentiment.py).  The           *)
(* classifier is external: for each text it either raises or answers, the  *)
(* transformer pipeline with a label and a score, TextBlob with a          *)
(* polarity.  Scores and polarities are in hundredths.                     *)
(***************************************************************************)
NeutralResult == [label |-> "neutral", score |-> 50]

Outcome(raises, label, score, polarity) ==
    [raises |-> raises, label |-> label, score |-> score, polarity |-> polarity]

\* the labels of finiteautomata/bertweet-base-sentiment-analysis, the model
\* the pipeline is built with, are POS, NEG and NEU
TransformerOutcomes ==
    {Outcome(TRUE, "", 0, 0), Outcome(FALSE, "POS", 98, 0),
     Outcome(FALSE, "NEG", 75, 0), Outcome(FALSE, "NEU", 60, 0)}

TextBlobOutcomes ==
    {Outcome(TRUE, "", 0, 0), Outcome(FALSE, "", 0, -100),
     Outcome(FALSE, "", 0, 0), Outcome(FALSE, "", 0, 60)}

Outcomes(useT) == IF useT THEN TransformerOutcomes ELSE TextBlobOutcomes

Abs(x) == IF x < 0 THEN -x ELSE x

\* the TextBlob branch of analyze_text: polarity to label and score
TextBlobResult(polarity) ==
    IF polarity > 10 THEN [label |-> "positive", score |-> Min(50 + polarity, 100)]
    ELSE IF polarity < -10 THEN [label |-> "negative", score |-> Max(50 - Abs(polarity), 0)]
    ELSE [label |-> "neutral", score |-> 50]

\* a guard that compares with "" without strip()
TextGuardNoStrip(cell) ==
    IF cell.k = "nan" THEN "skip"
    ELSE IF cell.k = "str" THEN (IF cell.s = <<>> THEN "skip" ELSE "go")
    ELSE "exc"

\* the guard of analyze_text: pd.isna(text) or text.strip() == ""
\* "skip" (return neutral at once), "go" (enter the try block) or "exc"
\* (the guard itself raises: a number has no strip, an array no truth value)
TextGuard(cell) ==
    IF cell.k = "nan" THEN "skip"
    ELSE IF cell.k = "str" THEN (IF IsBlank(cell.s) THEN "skip" ELSE "go")
    ELSE "exc"

\* the except clause of analyze_text
AnalyzeOnException == NeutralResult

\* an analyze_text without the try block around the classifier call
AnalyzeTextPropagates(cell, useT, o) ==
    LET g == TextGuard(cell)
    IN  IF g = "exc" THEN [raised |-> TRUE, res |-> NeutralResult, invoked |-> FALSE]
        ELSE IF g = "skip" THEN [raised |-> FALSE, res |-> NeutralResult, invoked |-> FALSE]
        ELSE [raised  |-> o.raises,
              invoked |-> TRUE,
              res     |-> IF useT THEN [label |-> o.label, score |-> o.score]
                          ELSE TextBlobResult(o.polarity)]

\* SentimentAnalyzer.analyze_text with the classifier's outcome o for this
\* text: whether it raised, the result, whether the classifier was invoked
analyze_text(cell, useT, o) ==
    LET g == TextGuard(cell)
    IN  IF g = "exc" THEN [raised |-> TRUE, res |-> NeutralResult, invoked |-> FALSE]
        ELSE IF g = "skip" THEN [raised |-> FALSE, res |-> NeutralResult, invoked |-> FALSE]
        ELSE [raised  |-> FALSE,
              invoked |-> TRUE,
              res     |-> IF o.raises THEN AnalyzeOnException
                          ELSE IF useT THEN [label |-> o.label, score |-> o.score]
                          ELSE TextBlobResult(o.polarity)]

\* a batch that leaves out the texts it need not classify
BatchSkippingBlank(ts, useT, os) ==
    LET keep == SelectSeq([i \in DOMAIN ts |-> i], LAMBDA i : TextGuard(ts[i]) # "skip")
        each == [k \in DOMAIN keep |-> analyze_text(ts[keep[k]], useT, os[keep[k]])]
    IN  [raised  |-> \E k \in DOMAIN keep : each[k].raised,
         value   |-> [k \in DOMAIN keep |-> each[k].res],
         invoked |-> [i \in DOMAIN ts |-> TextGuard(ts[i]) = "go"]]

\* SentimentAnalyzer.analyze_texts_batch: [self.analyze_text(t) for t in texts]
analyze_texts_batch(ts, useT, os) ==
    LET each == [i \in DOMAIN ts |-> analyze_text(ts[i], useT, os[i])]
    IN  [raised  |-> \E i \in DOMAIN ts : each[i].raised,
         value   |-> [i \in DOMAIN ts |-> each[i].res],
         invoked |-> [i \in DOMAIN ts |-> each[i].invoked]]


(***************************************************************************)
(* Sequence helpers for the aggregations                                   *)
(***************************************************************************)
RECURSIVE SumSeq(_)
SumSeq(s) == IF s = <<>> THEN 0 ELSE Head(s) + SumSeq(Tail(s))

\* the elements of s in the order of their first occurrence
RECURSIVE FirstOccurrences(_)
FirstOccurrences(s) ==
    IF s = <<>> THEN <<>>
    ELSE LET r == FirstOccurrences(SubSeq(s, 1, Len(s) - 1))
         IN  IF s[Len(s)] \in Range(r) THEN r ELSE Append(r, s[Len(s)])

CountIn(x, s) == Cardinality({i \in DOMAIN s : s[i] = x})

RemoveAt(s, i) == SubSeq(s, 1, i - 1) \o SubSeq(s, i + 1, Len(s))

\* sorted(items, key, reverse=True) / nlargest(keep='first'): descending by
\* key[item], items with equal keys in their original order
RECURSIVE StableDesc(_, _)
StableDesc(items, key) ==
    IF items = <<>> THEN <<>>
    ELSE LET i == CHOOSE j \in DOMAIN items :
                     /\ \A k \in DOMAIN items : key[items[k]] <= key[items[j]]
                     /\ \A k \in 1..(j - 1) : key[items[k]] < key[items[j]]
         IN  <<items[i]>> \o StableDesc(RemoveAt(items, i), key)

FirstN(s, n) == SubSeq(s, 1, Min(n, Len(s)))

(***************************************************************************)
(* DataProcessor.identify_trending_topics                                  *)
(***************************************************************************)
stop_words ==
    {<<"t", "h", "e">>, <<"a", "n", "d">>, <<"i", "s">>, <<"i", "n">>,
     <<"t", "o">>, <<"a">>, <<"f", "o", "r">>}

DefaultMinCount == 3

\* a word filter without the length condition
TopicWordsAnyLength(ts) ==
    SelectSeq(Split(Lower(Join(ts))), LAMBDA w : w \notin stop_words)

\* the words kept for counting: lowered, split, no stop word, longer than 2
TopicWords(ts) ==
    SelectSeq(Split(Lower(Join(ts))), LAMBDA w : w \notin stop_words /\ Len(w) > 2)

\* a result left in the order of first occurrence, without the sort
TrendingUnsorted(ts, min_count) ==
    LET words  == TopicWords(ts)
        counts == [w \in Range(words) |-> CountIn(w, words)]
        kept   == SelectSeq(FirstOccurrences(words), LAMBDA w : counts[w] >= min_count)
    IN  [i \in DOMAIN kept |-> [topic |-> kept[i], count |-> counts[kept[i]]]]

\* DataProcessor.identify_trending_topics, the try block
identify_trending_topics(ts, min_count) ==
    LET words  == TopicWords(ts)
        counts == [w \in Range(words) |-> CountIn(w, words)]
        kept   == SelectSeq(FirstOccurrences(words), LAMBDA w : counts[w] >= min_count)
        sorted == StableDesc(kept, counts)
    IN  [i \in DOMAIN sorted |-> [topic |-> sorted[i], count |-> counts[sorted[i]]]]

(***************************************************************************)
(* MetricsCalculator.calculate_time_based_metrics.  It writes the columns  *)
(* hour, day and week into the DataFrame it is given.  groupby sorts the   *)
(* bucket keys, and idxmax / idxmin give the first bucket in that order.   *)
(* std_dev is kept as the number of buckets, the sum and the sum of        *)
(* squares of their counts, which determine the sample deviation.          *)
(***************************************************************************)
EmptyDict == <<>>

EmptyMetrics == [hourly |-> EmptyDict, daily |-> EmptyDict, weekly |-> EmptyDict]

\* day names in alphabetical order, the order of the groupby index
DaysSorted ==
    <<"Friday", "Monday", "Saturday", "Sunday", "Thursday", "Tuesday", "Wednesday">>

HoursSorted == [i \in 1..24 |-> i - 1]

\* df.groupby(c).size() over the sorted keys: the non-empty buckets in order
Buckets(d, c, order) ==
    SelectSeq(order, LAMBDA b : \E i \in DOMAIN d.rows : d.rows[i][c] = b)

BucketCount(d, c, b) == Cardinality({i \in DOMAIN d.rows : d.rows[i][c] = b})

\* idxmax(): the first bucket holding the largest count
IdxMax(d, c, bs) ==
    bs[CHOOSE j \in DOMAIN bs :
          /\ \A k \in DOMAIN bs : BucketCount(d, c, bs[k]) <= BucketCount(d, c, bs[j])
          /\ \A k \in 1..(j - 1) : BucketCount(d, c, bs[k]) < BucketCount(d, c, bs[j])]

\* idxmin taking the fullest bucket, as idxmax does
LowAsPeak(d, c, bs) == IdxMax(d, c, bs)

\* idxmin(): the first bucket holding the smallest count
IdxMin(d, c, bs) ==
    bs[CHOOSE j \in DOMAIN bs :
          /\ \A k \in DOMAIN bs : BucketCount(d, c, bs[k]) >= BucketCount(d, c, bs[j])
          /\ \A k \in 1..(j - 1) : BucketCount(d, c, bs[k]) > BucketCount(d, c, bs[j])]

StdDev(d, c, bs) ==
    [n     |-> Len(bs),
     sum   |-> SumSeq([j \in DOMAIN bs |-> BucketCount(d, c, bs[j])]),
     sumsq |-> SumSeq([j \in DOMAIN bs |-> BucketCount(d, c, bs[j]) * BucketCount(d, c, bs[j])])]

\* the columns written at the top of the try block
WithTimeColumns(d, c) ==
    LET d1 == SetCol(d, "hour", "int", [i \in DOMAIN d.rows |-> HourOf(d.rows[i][c])])
        d2 == SetCol(d1, "day", "object", [i \in DOMAIN d.rows |-> DayOf(d.rows[i][c])])
    IN  SetCol(d2, "week", "int", [i \in DOMAIN d.rows |-> WeekOf(d.rows[i][c])])

\* the metrics and the DataFrame object after the call
calculate_time_based_metrics(d, c) ==
    IF ~HasDt(d, c) THEN [df |-> d, metrics |-> EmptyMetrics]
    ELSE LET d3 == WithTimeColumns(d, c)
             hs == Buckets(d3, "hour", HoursSorted)
             ds == Buckets(d3, "day", DaysSorted)
         IN  IF NRows(d3) = 0 THEN [df |-> d3, metrics |-> EmptyMetrics]
             ELSE [df |-> d3,
                   metrics |->
                     [hourly |-> [peak_hour |-> IdxMax(d3, "hour", hs),
                                  low_hour  |-> IdxMin(d3, "hour", hs),
                                  std_dev   |-> StdDev(d3, "hour", hs)],
                      daily  |-> [peak_day |-> IdxMax(d3, "day", ds),
                                  low_day  |-> IdxMin(d3, "day", ds),
                                  std_dev  |-> StdDev(d3, "day", ds)],
                      weekly |-> EmptyDict]]


(***************************************************************************)
(* RedditDataProcessor._calculate_insights                                 *)
(***************************************************************************)
TopTickersLimit == 10
TopPostsLimit == 5

\* df[c].mean(), kept as sum and count
Mean(d, c) == [sum |-> SumSeq(Column(d, c)), n |-> NRows(d)]

\* a distribution that lists the three labels of the vocabulary, also
\* those no post carries
DistributionOverVocabulary(d) ==
    [l \in {"positive", "negative", "neutral"} |->
        Cardinality({i \in DOMAIN d.rows : d.rows[i]["sentiment"] = l})]

\* df['sentiment'].value_counts().to_dict()
sentiment_distribution(d) ==
    [l \in {d.rows[i]["sentiment"] : i \in DOMAIN d.rows} |->
        Cardinality({i \in DOMAIN d.rows : d.rows[i]["sentiment"] = l})]

AllTickers(d) == UNION {d.rows[i]["tickers"] : i \in DOMAIN d.rows}

TickerCount(d, t) == Cardinality({i \in DOMAIN d.rows : t \in d.rows[i]["tickers"]})

\* a ticker count without head(10)
AllTickerCounts(d) == [t \in AllTickers(d) |-> TickerCount(d, t)]

\* pd.Series(all_tickers).value_counts().head(10).to_dict()
top_tickers(d) ==
    LET all == AllTickers(d)
        top == IF Cardinality(all) <= TopTickersLimit THEN all
               ELSE CHOOSE S \in SUBSET all :
                      /\ Cardinality(S) = TopTickersLimit
                      /\ \A x \in S, y \in all \ S : TickerCount(d, y) <= TickerCount(d, x)
    IN  [t \in top |-> TickerCount(d, t)]

\* a ranking of all posts, without the limit of nlargest
AllPostsRanked(d) ==
    LET idx == StableDesc([i \in DOMAIN d.rows |-> i],
                          [i \in DOMAIN d.rows |-> d.rows[i]["engagement_score"]])
    IN  [k \in DOMAIN idx |->
            [title |-> d.rows[idx[k]]["title"],
             engagement_score |-> d.rows[idx[k]]["engagement_score"]]]

\* df.nlargest(5, 'engagement_score')[['title', 'engagement_score']].to_dict('records')
top_posts(d) ==
    LET idx == StableDesc([i \in DOMAIN d.rows |-> i],
                          [i \in DOMAIN d.rows |-> d.rows[i]["engagement_score"]])
        top == FirstN(idx, TopPostsLimit)
    IN  [k \in DOMAIN top |->
            [title |-> d.rows[top[k]]["title"],
             engagement_score |-> d.rows[top[k]]["engagement_score"]]]

\* whether a statement of the try block of _calculate_insights raises, on
\* the object d1 left by the time metrics
InsightsRaises(d1, f) ==
    \/ ~(d1.frame /\ HasCol(d1, "clean_title") /\ HasCol(d1, "clean_text"))
    \/ f = "insights"
    \/ ~HasCol(d1, "sentiment")
    \/ ~HasCol(d1, "tickers")
    \/ ~(Arith(d1, "score") /\ Arith(d1, "num_comments")
         /\ Arith(d1, "engagement_score") /\ HasCol(d1, "title"))

\* the dictionary the try block builds when nothing raises
InsightsValue(d1, metrics) ==
    [time_metrics |-> metrics,
     trending_topics |->
         identify_trending_topics(Column(d1, "clean_title") \o Column(d1, "clean_text"),
                                  DefaultMinCount),
     sentiment_distribution |-> sentiment_distribution(d1),
     top_tickers |-> top_tickers(d1),
     engagement_stats |->
         [avg_score |-> Mean(d1, "score"),
          avg_comments |-> Mean(d1, "num_comments"),
          top_posts |-> top_posts(d1)]]

\* an except clause that lets the exception through
InsightsOnExceptionPropagates == [raised |-> TRUE, insights |-> EmptyDict]

\* the except clause of _calculate_insights
InsightsOnException == [raised |-> FALSE, insights |-> EmptyDict]

\* _calculate_insights: the outcome and the DataFrame object afterwards
calculate_insights(d, f) ==
    LET tm == calculate_time_based_metrics(d, "created_utc")
    IN  [out |-> IF InsightsRaises(tm.df, f) THEN InsightsOnException
                 ELSE [raised |-> FALSE, insights |-> InsightsValue(tm.df, tm.metrics)],
         df  |-> tm.df]

(***************************************************************************)
(* State machine.  A call starts at pc = "idle" and ends at "returned" or  *)
(* "raised".  process_reddit_data advances one stage per step.             *)
(***************************************************************************)
Faults == {"none", "engage1", "engage2", "batch", "insights"}

NoReturn == [kind |-> "none"]

Fresh ==
    /\ df0 = obj
    /\ pc = "idle"
    /\ op = "none"
    /\ results = <<>>
    /\ invoked = <<>>
    /\ outcomes = <<>>
    /\ executed = <<>>
    /\ ret = NoReturn
    /\ err = "none"
    /\ cache = <<>>
    /\ cache_times = <<>>
    /\ now = 0
    /\ insights = <<>>

Init ==
    /\ obj \in Datasets
    /\ fault \in Faults
    /\ useTransformers \in BOOLEAN
    /\ texts = <<>>
    /\ Fresh

\* an exception leaves process_reddit_data: its except clause logs and re-raises
Raise(stage, e, d) ==
    /\ obj' = d
    /\ pc' = "raised"
    /\ err' = e
    /\ executed' = Append(executed, stage)
    /\ UNCHANGED <<df0, fault, useTransformers, results, invoked, texts, outcomes, ret>>

\* a stage ends and the next one is due
Advance(stage, next, d) ==
    /\ obj' = d
    /\ pc' = next
    /\ executed' = Append(executed, stage)
    /\ UNCHANGED <<df0, fault, useTransformers, ret, err>>

\* a validation gate that answers an invalid dataset with an empty result
PValidateSwallows ==
    /\ pc = "idle"
    /\ op' = "process"
    /\ LET v == validate_reddit_data(obj)
       IN  IF ~v.out.value
           THEN /\ obj' = v.df
                /\ pc' = "returned"
                /\ ret' = [kind |-> "pair", df |-> v.df, insights |-> EmptyDict]
                /\ executed' = Append(executed, "validate")
                /\ UNCHANGED <<df0, fault, useTransformers, err>>
           ELSE Advance("validate", "clean", v.df)
    /\ UNCHANGED <<results, invoked, texts, outcomes>>
    /\ UNCHANGED cacheVars
    /\ UNCHANGED insights

\* lines 46-48
PValidate ==
    /\ pc = "idle"
    /\ op' = "process"
    /\ LET v == validate_reddit_data(obj)
       IN  IF v.out.raised THEN Raise("validate", "Exception", v.df)
           ELSE IF ~v.out.value
                THEN Raise("validate", "ValueError: Invalid Reddit data format", v.df)
           ELSE Advance("validate", "clean", v.df)
                /\ UNCHANGED <<results, invoked, texts, outcomes>>
    /\ UNCHANGED cacheVars
    /\ UNCHANGED insights


\* lines 50-52: clean_title is assigned before the text column is cleaned
PClean ==
    /\ pc = "clean"
    /\ LET ct == [i \in DOMAIN obj.rows |-> clean_text(obj.rows[i]["title"])]
           cx == [i \in DOMAIN obj.rows |-> clean_text(obj.rows[i]["text"])]
           d1 == SetCol(obj, "clean_title", "object", [i \in DOMAIN ct |-> ct[i].s])
           d2 == SetCol(d1, "clean_text", "object", [i \in DOMAIN cx |-> cx[i].s])
       IN  IF \E i \in DOMAIN ct : ct[i].raised
           THEN Raise("clean", "ValueError: truth value of an array is ambiguous", obj)
           ELSE IF \E i \in DOMAIN cx : cx[i].raised
           THEN Raise("clean", "ValueError: truth value of an array is ambiguous", d1)
           ELSE Advance("clean", "extract", d2)
                /\ UNCHANGED <<results, invoked, texts, outcomes>>
    /\ UNCHANGED op
    /\ UNCHANGED cacheVars
    /\ UNCHANGED insights

\* lines 54-56: both extractions read clean_text
\* PExtract reading the raw text column instead of clean_text
PExtractFromRaw ==
    /\ pc = "extract"
    /\ LET raw(i) == IF obj.rows[i]["text"].k = "str" THEN obj.rows[i]["text"].s ELSE <<>>
           d1 == SetCol(obj, "mentions", "object",
                     [i \in DOMAIN obj.rows |-> extract_mentions(raw(i))])
           d2 == SetCol(d1, "tickers", "object",
                     [i \in DOMAIN obj.rows |-> extract_tickers(raw(i))])
       IN  Advance("extract", "engage", d2)
    /\ UNCHANGED <<op, results, invoked, texts, outcomes>>
    /\ UNCHANGED cacheVars
    /\ UNCHANGED insights

PExtract ==
    /\ pc = "extract"
    /\ LET d1 == SetCol(obj, "mentions", "object",
                     [i \in DOMAIN obj.rows |-> extract_mentions(obj.rows[i]["clean_text"])])
           d2 == SetCol(d1, "tickers", "object",
                     [i \in DOMAIN obj.rows |-> extract_tickers(obj.rows[i]["clean_text"])])
       IN  Advance("extract", "engage", d2)
    /\ UNCHANGED <<op, results, invoked, texts, outcomes>>
    /\ UNCHANGED cacheVars
    /\ UNCHANGED insights

\* lines 58-59
PEngage ==
    /\ pc = "engage"
    /\ LET r == calculate_engagement_metrics(obj, fault)
       IN  IF r.raised THEN Raise("engage", "Exception", r.df)
           ELSE Advance("engage", "sentiment", r.df)
                /\ UNCHANGED <<results, invoked, texts, outcomes>>
    /\ UNCHANGED op
    /\ UNCHANGED cacheVars
    /\ UNCHANGED insights

\* a text list built from the titles alone
JoinedTitlesOnly(d) ==
    [i \in DOMAIN d.rows |-> StrCell(d.rows[i]["clean_title"])]

\* df['clean_title'] + " " + df['clean_text']
JoinedTexts(d) ==
    [i \in DOMAIN d.rows |->
        StrCell(d.rows[i]["clean_title"] \o <<" ">> \o d.rows[i]["clean_text"])]

\* lines 61-64: the analyzer is injected, so the call may raise (fault
\* "batch"); otherwise it is SentimentAnalyzer.analyze_texts_batch
PSentiment ==
    /\ pc = "sentiment"
    /\ LET ts == JoinedTexts(obj)
       IN  /\ texts' = ts
           /\ IF fault = "batch"
              THEN /\ pc' = "raised"
                   /\ err' = "Exception"
                   /\ UNCHANGED <<results, invoked, outcomes>>
              ELSE \E os \in [DOMAIN ts -> Outcomes(useTransformers)] :
                     LET b == analyze_texts_batch(ts, useTransformers, os)
                     IN  /\ outcomes' = os
                         /\ invoked' = b.invoked
                         /\ IF b.raised
                            THEN pc' = "raised" /\ err' = "Exception" /\ UNCHANGED results
                            ELSE pc' = "attach" /\ results' = b.value /\ UNCHANGED err
    /\ executed' = Append(executed, "sentiment")
    /\ UNCHANGED <<obj, df0, op, fault, useTransformers, ret>>
    /\ UNCHANGED cacheVars
    /\ UNCHANGED insights

\* lines 65-66
\* PAttach with the two assignments swapped
PAttachScoreFirst ==
    /\ pc = "attach"
    /\ LET d1 == SetCol(obj, "sentiment_score", "float",
                        [i \in DOMAIN results |-> results[i].score])
           d2 == SetCol(d1, "sentiment", "object",
                        [i \in DOMAIN results |-> results[i].label])
       IN  Advance("attach", "insights", d2)
    /\ UNCHANGED <<op, results, invoked, texts, outcomes>>
    /\ UNCHANGED cacheVars
    /\ UNCHANGED insights

PAttach ==
    /\ pc = "attach"
    /\ LET d1 == SetCol(obj, "sentiment", "object",
                        [i \in DOMAIN results |-> results[i].label])
           d2 == SetCol(d1, "sentiment_score", "float",
                        [i \in DOMAIN results |-> results[i].score])
       IN  Advance("attach", "insights", d2)
    /\ UNCHANGED <<op, results, invoked, texts, outcomes>>
    /\ UNCHANGED cacheVars
    /\ UNCHANGED insights

\* lines 68-71: the returned DataFrame is the object the stages wrote into
PInsights ==
    /\ pc = "insights"
    /\ LET r == calculate_insights(obj, fault)
       IN  IF r.out.raised
           THEN Raise("insights", "Exception", r.df)
           ELSE /\ obj' = r.df
                /\ pc' = "returned"
                /\ ret' = [kind |-> "pair", df |-> r.df, insights |-> r.out.insights]
                /\ executed' = Append(executed, "insights")
                /\ UNCHANGED <<df0, fault, useTransformers, err>>
    /\ UNCHANGED <<op, results, invoked, texts, outcomes>>
    /\ UNCHANGED cacheVars
    /\ UNCHANGED insights

\* a caller invokes DataValidator.validate_reddit_data itself
CallValidate ==
    /\ pc = "idle"
    /\ op' = "validate"
    /\ LET v == validate_reddit_data(obj)
       IN  /\ obj' = v.df
           /\ IF v.out.raised
              THEN pc' = "raised" /\ err' = "Exception" /\ UNCHANGED ret
              ELSE /\ pc' = "returned"
                   /\ ret' = [kind |-> "bool", value |-> v.out.value]
                   /\ UNCHANGED err
    /\ UNCHANGED <<df0, fault, useTransformers, results, invoked, texts, outcomes, executed>>
    /\ UNCHANGED cacheVars
    /\ UNCHANGED insights

\* a caller invokes DataProcessor.calculate_engagement_metrics itself
CallEngagement ==
    /\ pc = "idle"
    /\ op' = "engage"
    /\ LET r == calculate_engagement_metrics(obj, fault)
       IN  /\ obj' = r.df
           /\ IF r.raised
              THEN pc' = "raised" /\ err' = "Exception" /\ UNCHANGED ret
              ELSE /\ pc' = "returned"
                   /\ ret' = [kind |-> "df", df |-> r.df]
                   /\ UNCHANGED err
    /\ UNCHANGED <<df0, fault, useTransformers, results, invoked, texts, outcomes, executed>>
    /\ UNCHANGED cacheVars
    /\ UNCHANGED insights

Next ==
    \/ PValidate
    \/ PClean
    \/ PExtract
    \/ PEngage
    \/ PSentiment
    \/ PAttach
    \/ PInsights
    \/ CallValidate
    \/ CallEngagement

Spec == Init /\ [][Next]_vars


(***************************************************************************)
(* The validator alone, over every combination of present columns and      *)
(* dtypes                                                                  *)
(***************************************************************************)
TypedColumns == <<"score", "created_utc", "num_comments", "upvote_ratio">>

ColumnChoices == {"missing", "int", "float", "bool", "datetime", "object"}

\* the frame d with column c dropped or given the dtype ch
Chosen(d, c, ch) == IF ch = "missing" THEN DropCol(d, c) ELSE WithDtype(d, c, ch)

RECURSIVE ChosenAll(_, _, _)
ChosenAll(d, cs, ch) ==
    IF cs = <<>> THEN d
    ELSE ChosenAll(Chosen(d, Head(cs), ch[Head(cs)]), Tail(cs), ch)

TitlePosts ==
    { Post(StrCell(<<"b", "a", "t">>), StrCell(<<"a">>), 100, 50, 95, 2),
      Post(NanCell, NanCell, 1, 0, 50, 30) }

ValidatorInputs ==
    {NotAFrame} \cup
    { ChosenAll(Chosen(Chosen(Frame(rows), "title", tt), "text", tx), TypedColumns, ch) :
        rows \in SeqsUpTo(TitlePosts, MaxRows),
        tt \in {"missing", "object"}, tx \in {"missing", "object"},
        ch \in [Range(TypedColumns) -> ColumnChoices] }

InitValidate ==
    /\ obj \in ValidatorInputs
    /\ fault = "none"
    /\ useTransformers = FALSE
    /\ texts = <<>>
    /\ Fresh

NextValidate == CallValidate

SpecValidate == InitValidate /\ [][NextValidate]_vars

(***************************************************************************)
(* The sentiment analyzer alone                                            *)
(***************************************************************************)
TextPool ==
    { StrCell(<<"b", "a", "t">>), StrCell(<<"$", "A", "B">>), StrCell(<<>>),
      StrCell(<<" ">>), StrCell(<<" ", " ">>), StrCell(<<" ", "a">>), NanCell }

InitSentiment ==
    /\ obj = NotAFrame
    /\ fault = "none"
    /\ useTransformers \in BOOLEAN
    /\ texts \in SeqsUpTo(TextPool, MaxTexts)
    /\ Fresh

\* a caller invokes SentimentAnalyzer.analyze_text on one text
CallAnalyzeText ==
    /\ pc = "idle"
    /\ Len(texts) = 1
    /\ op' = "text"
    /\ \E o \in Outcomes(useTransformers) :
         LET r == analyze_text(texts[1], useTransformers, o)
         IN  /\ outcomes' = <<o>>
             /\ invoked' = <<r.invoked>>
             /\ IF r.raised
                THEN pc' = "raised" /\ err' = "Exception" /\ UNCHANGED <<results, ret>>
                ELSE /\ pc' = "returned"
                     /\ results' = <<r.res>>
                     /\ ret' = [kind |-> "result", value |-> r.res]
                     /\ UNCHANGED err
    /\ UNCHANGED <<obj, df0, fault, useTransformers, texts, executed>>
    /\ UNCHANGED cacheVars
    /\ UNCHANGED insights

\* a caller invokes SentimentAnalyzer.analyze_texts_batch on a list
CallAnalyzeBatch ==
    /\ pc = "idle"
    /\ op' = "batch"
    /\ \E os \in [DOMAIN texts -> Outcomes(useTransformers)] :
         LET b == analyze_texts_batch(texts, useTransformers, os)
         IN  /\ outcomes' = os
             /\ invoked' = b.invoked
             /\ IF b.raised
                THEN pc' = "raised" /\ err' = "Exception" /\ UNCHANGED <<results, ret>>
                ELSE /\ pc' = "returned"
                     /\ results' = b.value
                     /\ ret' = [kind |-> "list", value |-> b.value]
                     /\ UNCHANGED err
    /\ UNCHANGED <<obj, df0, fault, useTransformers, texts, executed>>
    /\ UNCHANGED cacheVars
    /\ UNCHANGED insights

NextSentiment == CallAnalyzeText \/ CallAnalyzeBatch

SpecSentiment == InitSentiment /\ [][NextSentiment]_vars


(***************************************************************************)
(* The text functions alone: clean_text, clean_text applied to its own     *)
(* result, extract_mentions and extract_tickers, each on one value.  The   *)
(* values are every string up to a length over three small alphabets (URL  *)
(* prefixes and punctuation; marks, letters and a digit; '$' and one       *)
(* capital, long enough to pass five letters), some sample sentences, and  *)
(* the values that are no string.                                          *)
(***************************************************************************)
MaxUrlLen == 5
MaxTagLen == 4
MaxCapsLen == 7

UrlChars == {"w", "h", "t", "p", ".", " "}
TagChars == {"@", "$", "a", "A", "1", " "}
CapsChars == {"$", "A"}

SampleTexts ==
    { <<"v", "i", "s", "i", "t", " ", "h", "t", "t", "p", ":", "/", "/",
        "a", ".", "c", "o", "m", " ", "n", "o", "w">>,
      <<"h", "i", " ", "@", "b", "o", "b", " ", "a", "n", "d", " ", "@",
        "a", "l", "i", "c", "e">>,
      <<"$", "A", "A", "P", "L">>,
      <<"C", "h", "e", "c", "k", " ", "o", "u", "t", " ", "$", "A", "A",
        "P", "L", " ", "a", "n", "d", " ", "@", "w", "a", "l", "l", "s",
        "t", "r", "e", "e", "t", "b", "e", "t", "s", "!", " ", "h", "t",
        "t", "p", ":", "/", "/", "e", "x", "a", "m", "p", "l", "e", ".",
        "c", "o", "m">>,
      <<"H", "T", "T", "P", ":", "/", "/", "A", ".", "B", " ", "c">>,
      <<"h", "t", "t", "p", ":", "/", "/", "a", ".", "c", "o", "m", " ",
        "h", "t", "t", "p">>,
      <<"@", "b", "o", "b", " ", "@", "a", "l", "i", "c", "e", " ", "@",
        "b", "o", "b">> }

TextInputs ==
    {StrCell(s) : s \in SeqsUpTo(UrlChars, MaxUrlLen) \cup SeqsUpTo(TagChars, MaxTagLen)
                          \cup SeqsUpTo(CapsChars, MaxCapsLen) \cup SampleTexts}
        \cup {NanCell, NumCell, ListCell}

InitText ==
    /\ obj = NotAFrame
    /\ fault = "none"
    /\ useTransformers = FALSE
    /\ texts \in {<<c>> : c \in TextInputs}
    /\ Fresh

\* a caller invokes TextPreprocessor.clean_text on a value
CallCleanText ==
    /\ pc = "idle"
    /\ op' = "clean"
    /\ LET r == clean_text(texts[1])
       IN  IF r.raised
           THEN /\ pc' = "raised"
                /\ err' = "ValueError: truth value of an array is ambiguous"
                /\ UNCHANGED ret
           ELSE /\ pc' = "returned"
                /\ ret' = [kind |-> "str", value |-> r.s]
                /\ UNCHANGED err
    /\ UNCHANGED <<obj, df0, fault, useTransformers, results, invoked, texts,
                   outcomes, executed>>
    /\ UNCHANGED cacheVars
    /\ UNCHANGED insights

\* the caller hands the string clean_text returned to clean_text again;
\* results keeps the first result
CallCleanAgain ==
    /\ pc = "returned"
    /\ op = "clean"
    /\ op' = "reclean"
    /\ results' = <<ret.value>>
    /\ ret' = [kind |-> "str", value |-> clean_text(StrCell(ret.value)).s]
    /\ UNCHANGED <<obj, df0, pc, fault, useTransformers, invoked, texts,
                   outcomes, executed, err>>
    /\ UNCHANGED cacheVars
    /\ UNCHANGED insights

\* a caller invokes TextPreprocessor.extract_mentions on a value
CallExtractMentions ==
    /\ pc = "idle"
    /\ op' = "mentions"
    /\ pc' = "returned"
    /\ ret' = [kind |-> "list", value |-> extract_mentions_list(texts[1])]
    /\ UNCHANGED <<obj, df0, fault, useTransformers, results, invoked, texts,
                   outcomes, executed, err>>
    /\ UNCHANGED cacheVars
    /\ UNCHANGED insights

\* a caller invokes TextPreprocessor.extract_tickers on a value
CallExtractTickers ==
    /\ pc = "idle"
    /\ op' = "tickers"
    /\ pc' = "returned"
    /\ ret' = [kind |-> "list", value |-> extract_tickers_list(texts[1])]
    /\ UNCHANGED <<obj, df0, fault, useTransformers, results, invoked, texts,
                   outcomes, executed, err>>
    /\ UNCHANGED cacheVars
    /\ UNCHANGED insights

NextText ==
    \/ CallCleanText
    \/ CallCleanAgain
    \/ CallExtractMentions
    \/ CallExtractTickers

SpecText == InitText /\ [][NextText]_vars


(***************************************************************************)
(* identify_trending_topics alone, on every list of up to MaxTopicTexts    *)
(* texts of a pool, with the default threshold and a lower one.  ret keeps *)
(* the threshold of the call next to the list returned.                    *)
(***************************************************************************)
MaxTopicTexts == 5

Bitcoin == <<"b", "i", "t", "c", "o", "i", "n">>
Ai == <<"a", "i">>
Eth == <<"e", "t", "h">>

TopicPool ==
    { StrCell(Bitcoin),
      StrCell(Bitcoin \o <<" ">> \o Ai),
      StrCell(<<"B">> \o Tail(Bitcoin) \o <<" ">> \o Ai \o <<" ">> \o Eth),
      StrCell(<<"t", "h", "e", " ">> \o Eth),
      NanCell }

TopicMinCounts == {2, DefaultMinCount}

InitTopics ==
    /\ obj = NotAFrame
    /\ fault = "none"
    /\ useTransformers = FALSE
    /\ texts \in SeqsUpTo(TopicPool, MaxTopicTexts)
    /\ Fresh

\* a caller invokes DataProcessor.identify_trending_topics on a list; with
\* an element that is no string ' '.join raises and the handler returns []
CallTrendingTopics ==
    /\ pc = "idle"
    /\ op' = "topics"
    /\ pc' = "returned"
    /\ \E m \in TopicMinCounts :
         ret' = [kind      |-> "topics",
                 min_count |-> m,
                 value     |-> IF \E i \in DOMAIN texts : texts[i].k # "str" THEN <<>>
                               ELSE identify_trending_topics(
                                        [i \in DOMAIN texts |-> texts[i].s], m)]
    /\ UNCHANGED <<obj, df0, fault, useTransformers, results, invoked, texts,
                   outcomes, executed, err>>
    /\ UNCHANGED cacheVars
    /\ UNCHANGED insights

NextTopics == CallTrendingTopics

SpecTopics == InitTopics /\ [][NextTopics]_vars


(***************************************************************************)
(* _calculate_insights alone, on enriched datasets: the columns the        *)
(* pipeline has added by the time it aggregates, with every list of up to  *)
(* MaxInsightRows rows of a pool.  One row carries more tickers than       *)
(* top_tickers keeps.  A second shape of each dataset has a created_utc    *)
(* that is no datetime, on which the time metrics fail.                    *)
(***************************************************************************)
MaxInsightRows == 6

DerivedOrder ==
    <<"clean_title", "clean_text", "mentions", "tickers", "engagement_score",
      "hour_of_day", "day_of_week", "sentiment", "sentiment_score">>

EnrichedColumns == required_columns \o DerivedOrder

TickerNames ==
    {<<"A", c>> : c \in {"A", "B", "C", "D", "E", "F", "G", "H", "I", "J", "K"}}

\* a row as the stages before the aggregation leave it
EnrichedPost(title, score, ncomments, ratio, created, label, tickers) ==
    [c \in Range(EnrichedColumns) |->
        CASE c = "title" -> StrCell(title)
          [] c = "text" -> NanCell
          [] c = "score" -> score
          [] c = "num_comments" -> ncomments
          [] c = "upvote_ratio" -> ratio
          [] c = "created_utc" -> created
          [] c = "clean_title" -> Lower(title)
          [] c = "clean_text" -> <<>>
          [] c = "mentions" -> {}
          [] c = "tickers" -> tickers
          [] c = "engagement_score" -> (score + 2 * ncomments) * ratio
          [] c = "hour_of_day" -> HourOf(created)
          [] c = "day_of_week" -> DayOf(created)
          [] c = "sentiment" -> label
          [] c = "sentiment_score" -> 50]

EnrichedPosts ==
    { EnrichedPost(<<"b", "a", "t">>, 100, 50, 95, 2, "positive", TickerNames),
      EnrichedPost(<<"A", "B">>, 150, 75, 88, 47, "negative", {<<"A", "A">>}),
      EnrichedPost(<<"b", "a", "t">>, 0, 1, 50, 26, "neutral", {<<"A", "A">>, <<"A", "B">>}) }

EnrichedDtypes ==
    [c \in Range(EnrichedColumns) |->
        CASE c \in {"score", "num_comments", "hour_of_day"} -> "int"
          [] c \in {"upvote_ratio", "engagement_score", "sentiment_score"} -> "float"
          [] c = "created_utc" -> "datetime"
          [] OTHER -> "object"]

EnrichedFrame(rows) ==
    [frame |-> TRUE, cols |-> EnrichedColumns, dtype |-> EnrichedDtypes, rows |-> rows]

EnrichedDatasets ==
    {EnrichedFrame(rows) : rows \in SeqsUpTo(EnrichedPosts, MaxInsightRows)}
        \cup {WithDtype(EnrichedFrame(rows), "created_utc", "float") :
                rows \in SeqsUpTo(EnrichedPosts, MaxInsightRows)}

InitInsights ==
    /\ obj \in EnrichedDatasets
    /\ fault = "none"
    /\ useTransformers = FALSE
    /\ texts = <<>>
    /\ Fresh

\* a caller invokes RedditDataProcessor._calculate_insights on a dataset
CallInsights ==
    /\ pc = "idle"
    /\ op' = "insights"
    /\ pc' = "returned"
    /\ LET r == calculate_insights(obj, fault)
       IN  /\ obj' = r.df
           /\ ret' = [kind |-> "insights", insights |-> r.out.insights]
    /\ UNCHANGED <<df0, fault, useTransformers, results, invoked, texts,
                   outcomes, executed, err>>
    /\ UNCHANGED cacheVars
    /\ UNCHANGED insights

NextInsights == CallInsights

SpecInsights == InitInsights /\ [][NextInsights]_vars

(***************************************************************************)
(* CacheManager (utils.py): one object, its two dicts and the wall clock.  *)
(***************************************************************************)

\* bounds of the cache specification
MaxDays == 1
MaxTicksPerDay == 3

\* CacheManager.__init__'s default cache_duration, in seconds
DefaultCacheDuration == 3600

cache_duration == DefaultCacheDuration

\* timedelta normalises to days, seconds and microseconds
SecondsPerDay == 86400

\* the clock advances by half a cache_duration or by a whole day
TickSeconds == cache_duration \div 2

ClockSteps == {TickSeconds, SecondsPerDay}

CacheKeys == {"k1", "k2"}

\* "k2" is a key no caller ever sets
SetKeys == {"k1"}

CacheValues == {"v1", "v2"}

\* timedelta.seconds: the seconds component of the difference, days left out
TimedeltaSeconds(delta) == delta % SecondsPerDay

\* the age CacheManager.get compares with cache_duration
CacheAge(delta) == TimedeltaSeconds(delta)

\* CacheManager.get(key)
cache_get(key) ==
    IF key \in DOMAIN cache_times /\ CacheAge(now - cache_times[key]) < cache_duration
        THEN IF key \in DOMAIN cache THEN cache[key] ELSE "None"
        ELSE "None"

InitCache ==
    /\ obj = NotAFrame
    /\ fault = "none"
    /\ useTransformers = FALSE
    /\ texts = <<>>
    /\ Fresh

\* a caller invokes CacheManager.set(key, value)
CacheSet ==
    \E key \in SetKeys, value \in CacheValues :
        /\ op' = "set"
        /\ pc' = "returned"
        /\ cache' = [k \in DOMAIN cache \cup {key} |-> IF k = key THEN value ELSE cache[k]]
        /\ cache_times' = [k \in DOMAIN cache_times \cup {key} |->
                              IF k = key THEN now ELSE cache_times[k]]
        /\ ret' = [kind |-> "set", key |-> key, at |-> now, value |-> "None"]
        /\ UNCHANGED <<obj, df0, fault, useTransformers, results, invoked, texts,
                       outcomes, executed, err, now, insights>>

\* a caller invokes CacheManager.get(key)
CacheGet ==
    \E key \in CacheKeys :
        /\ op' = "get"
        /\ pc' = "returned"
        /\ ret' = [kind |-> "get", key |-> key, at |-> now, value |-> cache_get(key)]
        /\ UNCHANGED <<obj, df0, fault, useTransformers, results, invoked, texts,
                       outcomes, executed, err, cache, cache_times, now, insights>>

\* time passes between two calls
ClockAdvances ==
    \E step \in ClockSteps :
        /\ now + step < (MaxDays + 1) * SecondsPerDay
        /\ step = TickSeconds => (now % SecondsPerDay) < MaxTicksPerDay * TickSeconds
        /\ now' = now + step
        /\ UNCHANGED <<obj, df0, pc, op, fault, useTransformers, results, invoked,
                       texts, outcomes, executed, ret, err, cache, cache_times, insights>>

NextCache == CacheSet \/ CacheGet \/ ClockAdvances

SpecCache == InitCache /\ [][NextCache]_vars

(***************************************************************************)
(* RedditDataProcessor.generate_report (data_processor.py)                 *)
(***************************************************************************)

\* bounds of the report specification
MaxReportRows == 2
MaxTrending == 11

\* insights['trending_topics'][:10]
ReportTopicsLimit == 10

\* Series.mode() sorts the most frequent values; these labels in sorted order
LabelOrder == <<"negative", "neutral", "positive">>

\* df['sentiment'].mode(): the most frequent labels, sorted
SeriesMode(vals) ==
    LET most == {l \in Range(vals) : \A m \in Range(vals) : CountIn(m, vals) <= CountIn(l, vals)}
    IN  SelectSeq(LabelOrder, LAMBDA l : l \in most)

\* df['author'].nunique(): the distinct values that are not NaN
NUnique(vals) == Cardinality({vals[i] : i \in DOMAIN vals} \ {NanCell})

\* Series.min() and Series.max() of a series that is not empty
SeriesMin(vals) == CHOOSE x \in Range(vals) : \A y \in Range(vals) : x <= y

SeriesMax(vals) == CHOOSE x \in Range(vals) : \A y \in Range(vals) : y <= x

\* RedditDataProcessor._calculate_ticker_sentiment
calculate_ticker_sentiment(d) ==
    IF \/ ~HasCol(d, "tickers")
       \/ \E i \in DOMAIN d.rows :
             /\ d.rows[i]["tickers"] # {}
             /\ (~HasCol(d, "sentiment") \/ d.rows[i]["sentiment"] \notin Range(LabelOrder))
        THEN EmptyDict
    ELSE [t \in AllTickers(d) |->
            LET with(l) == Cardinality({i \in DOMAIN d.rows :
                               t \in d.rows[i]["tickers"] /\ d.rows[i]["sentiment"] = l})
                total == TickerCount(d, t)
            IN  [positive |-> with("positive"),
                 negative |-> with("negative"),
                 neutral |-> with("neutral"),
                 total_mentions |-> total,
                 positive_ratio |-> (100 * with("positive")) \div total,
                 negative_ratio |-> (100 * with("negative")) \div total,
                 neutral_ratio |-> (100 * with("neutral")) \div total]]

\* the exception the report's dictionary display raises, "none" when none:
\* its entries are evaluated from top to bottom
ReportException(d, ins) ==
    IF ~d.frame THEN "TypeError"
    ELSE IF ~HasCol(d, "created_utc") THEN "KeyError: 'created_utc'"
    ELSE IF d.dtype["created_utc"] # "datetime" THEN "AttributeError: isoformat"
    ELSE IF ~HasCol(d, "author") THEN "KeyError: 'author'"
    ELSE IF ~HasCol(d, "sentiment") THEN "KeyError: 'sentiment'"
    ELSE IF SeriesMode(Column(d, "sentiment")) = <<>> THEN "KeyError: 0"
    ELSE IF "sentiment_distribution" \notin DOMAIN ins THEN "KeyError: 'sentiment_distribution'"
    ELSE IF ~HasCol(d, "sentiment_score") THEN "KeyError: 'sentiment_score'"
    ELSE IF "trending_topics" \notin DOMAIN ins THEN "KeyError: 'trending_topics'"
    ELSE IF "engagement_stats" \notin DOMAIN ins THEN "KeyError: 'engagement_stats'"
    ELSE IF "time_metrics" \notin DOMAIN ins THEN "KeyError: 'time_metrics'"
    ELSE "none"

\* the report of a call in which nothing raises
ReportValue(d, ins, t) ==
    LET created == Column(d, "created_utc")
        report ==
            [timestamp |-> [isoformat |-> t],
             data_summary |->
                 [total_posts |-> NRows(d),
                  date_range |->
                      [start |-> [isoformat |-> SeriesMin(created)],
                       end |-> [isoformat |-> SeriesMax(created)]],
                  unique_authors |-> NUnique(Column(d, "author"))],
             sentiment_analysis |->
                 [overall_sentiment |-> SeriesMode(Column(d, "sentiment"))[1],
                  sentiment_distribution |-> ins.sentiment_distribution,
                  average_sentiment_score |-> Mean(d, "sentiment_score")],
             trending_topics |-> FirstN(ins.trending_topics, ReportTopicsLimit),
             engagement_metrics |-> ins.engagement_stats,
             time_analysis |-> ins.time_metrics]
    IN  IF "top_tickers" \in DOMAIN ins
            THEN [k \in DOMAIN report \cup {"stock_analysis"} |->
                    IF k = "stock_analysis"
                        THEN [top_tickers |-> ins.top_tickers,
                              ticker_sentiment |-> calculate_ticker_sentiment(d)]
                        ELSE report[k]]
            ELSE report

\* RedditDataProcessor.generate_report: every exception becomes {'error': str(e)}
generate_report(d, ins, t) ==
    IF ReportException(d, ins) # "none"
        THEN [error |-> ReportException(d, ins)]
        ELSE ReportValue(d, ins, t)

\* a dataset with the post source's author column
WithAuthors(d) ==
    SetCol(d, "author", "object", [i \in DOMAIN d.rows |->
               IF i = 1 THEN StrCell(<<"a">>) ELSE StrCell(<<"b">>)])

\* processed datasets of up to MaxReportRows posts: as the pipeline leaves a
\* dataset of the required columns, and the same with the post source's
\* author column
ReportDatasets ==
    LET plain == {EnrichedFrame(rows) : rows \in SeqsUpTo(EnrichedPosts, MaxReportRows)}
    IN  plain \cup {WithAuthors(d) : d \in plain}

\* trending lists of length n
TrendingOfLength(n) == [i \in 1..n |-> [topic |-> <<"t", "1">>, count |-> n + 3 - i]]

\* the insights of a run over two posts, with a trending list of length n
CompleteInsights(n) ==
    LET d == EnrichedFrame(<<CHOOSE p \in EnrichedPosts : p["sentiment"] = "positive",
                             CHOOSE p \in EnrichedPosts : p["sentiment"] = "negative">>)
    IN  [calculate_insights(d, "none").out.insights EXCEPT
            !.trending_topics = TrendingOfLength(n)]

Without(ins, key) == [k \in DOMAIN ins \ {key} |-> ins[k]]

\* complete insights, insights that miss one key, and the degraded insights {}
ReportInsights ==
    LET complete == {CompleteInsights(n) : n \in {0, 3, ReportTopicsLimit, MaxTrending}}
    IN  {EmptyDict} \cup complete
            \cup {Without(ins, key) : ins \in complete, key \in DOMAIN CompleteInsights(0)}

InitReport ==
    /\ obj \in ReportDatasets
    /\ insights \in ReportInsights
    /\ df0 = obj
    /\ pc = "idle"
    /\ op = "none"
    /\ fault = "none"
    /\ useTransformers = FALSE
    /\ texts = <<>>
    /\ results = <<>>
    /\ invoked = <<>>
    /\ outcomes = <<>>
    /\ executed = <<>>
    /\ ret = NoReturn
    /\ err = "none"
    /\ cache = <<>>
    /\ cache_times = <<>>
    /\ now = 0

\* a caller invokes RedditDataProcessor.generate_report(df, insights)
CallReport ==
    /\ pc = "idle"
    /\ op' = "report"
    /\ pc' = "returned"
    /\ ret' = [kind |-> "report", given |-> insights, report |-> generate_report(obj, insights, now)]
    /\ UNCHANGED <<obj, df0, fault, useTransformers, results, invoked, texts,
                   outcomes, executed, err, insights>>
    /\ UNCHANGED cacheVars

NextReport == CallReport

SpecReport == InitReport /\ [][NextReport]_vars


(***************************************************************************)
(* Properties                                                              *)
(***************************************************************************)
DerivedColumns ==
    {"clean_title", "clean_text", "mentions", "tickers", "engagement_score",
     "hour_of_day", "day_of_week", "sentiment", "sentiment_score"}

ValidatorAccepts(d) == validate_reddit_data(d).out.value

\* a title or text cell on which clean_text raises
HasListCell(d) ==
    \E i \in DOMAIN d.rows : d.rows[i]["title"].k = "list" \/ d.rows[i]["text"].k = "list"

Last(s) == s[Len(s)]

\* C1: when validate_reddit_data(df) is false, process_reddit_data ends by
\* raising ValueError, and then only the validation stage has run: the
\* dataset has none of the derived columns, is as the caller passed it, and
\* nothing has been returned.
C1_ValidationFailureHalts ==
    (op = "process" /\ ~ValidatorAccepts(df0)) =>
        /\ pc = "raised"
        /\ err = "ValueError: Invalid Reddit data format"
        /\ executed = <<"validate">>
        /\ Range(obj.cols) \cap DerivedColumns = {}
        /\ obj = df0
        /\ ret.kind = "none"

C1_Witness ==
    /\ op = "process" /\ pc = "raised"
    /\ df0.frame /\ NRows(df0) > 0 /\ ~ValidatorAccepts(df0)

\* C2: a failure inside _calculate_insights is caught there: the run still
\* returns (enriched dataset, {}) and raises nothing; a validation failure
\* is always a raised error and never an empty result.
C2_AggregationFailureDegrades ==
    /\ (op = "process" /\ "insights" \in Range(executed)) =>
          /\ pc = "returned" /\ err = "none"
          /\ ret.kind = "pair" /\ ret.df = obj
          /\ {"clean_title", "clean_text", "sentiment", "sentiment_score"}
                \subseteq Range(ret.df.cols)
    /\ (op = "process" /\ "insights" \in Range(executed)
          /\ (fault = "insights" \/ ~HasCol(obj, "engagement_score"))) =>
          DOMAIN ret.insights = {}
    /\ (op = "process" /\ ~ValidatorAccepts(df0)) => (pc = "raised" /\ err # "none")

C2_Witness ==
    /\ op = "process" /\ pc = "returned" /\ fault = "insights"
    /\ NRows(obj) > 0 /\ DOMAIN ret.insights = {}

\* C3: process_reddit_data raises only when validation fails or a step
\* outside calculate_engagement_metrics and _calculate_insights raises
\* (cleaning, the batch sentiment call); a failure inside those two never
\* makes it raise, and an exception outside them reaches the caller as it
\* was raised, never replaced by a result.
C3_RaisesOnlyOutsideBoundaries ==
    /\ (op = "process" /\ pc = "raised") =>
          \/ /\ executed = <<"validate">> /\ ~ValidatorAccepts(df0)
             /\ err = "ValueError: Invalid Reddit data format"
          \/ /\ Last(executed) = "clean" /\ HasListCell(df0)
             /\ err = "ValueError: truth value of an array is ambiguous"
          \/ /\ Last(executed) = "sentiment" /\ fault = "batch"
             /\ err = "Exception"
    /\ (op = "process" /\ pc = "returned") =>
          (ValidatorAccepts(df0) /\ ~HasListCell(df0) /\ fault # "batch")
    /\ (op = "process" /\ Len(executed) >= 4 /\ fault \in {"engage1", "engage2", "insights"}) =>
          pc # "raised"

C3_Witness ==
    /\ op = "process" /\ pc = "raised" /\ fault = "batch"
    /\ Last(executed) = "sentiment" /\ NRows(obj) > 0

\* the conditions of the validator, stated on the dataset
WellFormed(d) ==
    /\ d.frame
    /\ Range(required_columns) \subseteq Range(d.cols)
    /\ d.dtype["score"] \in {"int", "float", "bool"}
    /\ d.dtype["num_comments"] \in {"int", "float", "bool"}
    /\ d.dtype["created_utc"] = "datetime"
    /\ d.dtype["upvote_ratio"] = "float"
    /\ \A i \in DOMAIN d.rows : d.rows[i]["title"].k # "nan"

\* C4: validate_reddit_data returns true exactly when the six required
\* columns are present, score and num_comments are numeric, created_utc is
\* datetime-typed, upvote_ratio is floating point and no title is missing.
C4_ValidatorIff ==
    (op = "validate" /\ pc = "returned") => (ret.value <=> WellFormed(df0))

C4_Witness ==
    /\ op = "validate" /\ pc = "returned" /\ ~ret.value
    /\ df0.frame /\ ~HasCol(df0, "upvote_ratio")
    /\ WellFormed(SetCol(df0, "upvote_ratio", "float", [i \in DOMAIN df0.rows |-> 50]))

\* C5: validate_reddit_data never raises: it returns a boolean for every
\* input, false when a check itself throws, and leaves the dataset as it was.
C5_ValidatorNeverRaises ==
    (op = "validate") =>
        /\ pc = "returned" /\ err = "none"
        /\ ret.kind = "bool" /\ ret.value \in BOOLEAN
        /\ (~df0.frame => ret.value = FALSE)
        /\ obj = df0

C5_Witness ==
    op = "validate" /\ pc = "returned" /\ ~df0.frame /\ ret.value = FALSE

\* C6: when a step inside calculate_engagement_metrics fails, the function
\* does not raise and returns the original dataset unmodified.
C6_EngagementFailureReturnsOriginal ==
    (op = "engage" /\ fault = "none" /\ EngagementBody(df0, fault).exc) =>
        (pc = "returned" /\ ret.df = df0 /\ obj = df0)

\* C7: after process_reddit_data(df) and after
\* calculate_engagement_metrics(df), the dataset the caller passed has
\* exactly the columns and values it had before the call.
C7_CallerInputNotMutated ==
    (op \in {"process", "engage"} /\ pc \in {"returned", "raised"} /\ fault = "none"
        /\ ValidatorAccepts(df0) /\ NRows(df0) > 0) =>
        obj = df0

\* C8: insight aggregation adds no column to the enriched dataset and
\* changes no value of it.
C8_InsightsReadOnly ==
    [][(pc = "insights" /\ fault = "none" /\ NRows(obj) > 0) => obj' = obj]_vars

\* a text analyze_text must answer without the classifier
MissingOrBlank(cell) ==
    cell.k = "nan" \/ (cell.k = "str" /\ \A i \in DOMAIN cell.s : cell.s[i] = " ")

\* what analyze_text owes for a text, given what the classifier does for it
Owed(cell, useT, o) ==
    IF MissingOrBlank(cell) \/ o.raises THEN [label |-> "neutral", score |-> 50]
    ELSE IF useT THEN [label |-> o.label, score |-> o.score]
    ELSE IF o.polarity > 10 THEN [label |-> "positive", score |-> Min(50 + o.polarity, 100)]
    ELSE IF o.polarity < -10 THEN [label |-> "negative", score |-> Max(50 + o.polarity, 0)]
    ELSE [label |-> "neutral", score |-> 50]

\* C9: analyze_texts_batch returns exactly len(texts) results and result i
\* is the outcome of analysing texts[i], whatever the classifier does.
C9_BatchPreservesOrder ==
    (op = "batch") =>
        /\ pc = "returned" /\ ret.kind = "list"
        /\ Len(ret.value) = Len(texts)
        /\ \A i \in DOMAIN texts : ret.value[i] = Owed(texts[i], useTransformers, outcomes[i])

C9_Witness ==
    /\ op = "batch" /\ pc = "returned" /\ Len(texts) = 2
    /\ MissingOrBlank(texts[1]) /\ ~MissingOrBlank(texts[2])
    /\ ~outcomes[2].raises /\ ret.value[2] # ret.value[1]

\* C10: for a missing, empty or whitespace-only text analyze_text returns
\* exactly (neutral, 0.5) and the classifier is not invoked for it.
C10_BlankTextNeutral ==
    (op \in {"text", "batch"}) =>
        /\ pc = "returned"
        /\ \A i \in DOMAIN texts :
              MissingOrBlank(texts[i]) =>
                  (results[i] = [label |-> "neutral", score |-> 50] /\ ~invoked[i])

C10_Witness ==
    /\ op = "text" /\ pc = "returned"
    /\ texts = <<StrCell(<<" ", " ">>)>> /\ ~invoked[1]


\* what the classifier answered for a text on which it did not fail
Classified(useT, o) ==
    IF useT THEN [label |-> o.label, score |-> o.score]
    ELSE IF o.polarity > 10 THEN [label |-> "positive", score |-> Min(50 + o.polarity, 100)]
    ELSE IF o.polarity < -10 THEN [label |-> "negative", score |-> Max(50 + o.polarity, 0)]
    ELSE [label |-> "neutral", score |-> 50]

\* C11: within one analyze_texts_batch call, a classifier failure on text i
\* makes result i exactly (neutral, 0.5), the call does not raise, and every
\* other text j the classifier answers gets the classifier's result for it.
C11_FailureIsolatedPerText ==
    (op = "batch") =>
        /\ pc = "returned" /\ err = "none"
        /\ DOMAIN results = DOMAIN texts
        /\ \A i \in DOMAIN texts :
              (invoked[i] /\ outcomes[i].raises) =>
                  results[i] = [label |-> "neutral", score |-> 50]
        /\ \A j \in DOMAIN texts :
              (invoked[j] /\ ~outcomes[j].raises) =>
                  results[j] = Classified(useTransformers, outcomes[j])

C11_Witness ==
    /\ op = "batch" /\ pc = "returned" /\ Len(texts) = 2
    /\ invoked[1] /\ outcomes[1].raises
    /\ invoked[2] /\ ~outcomes[2].raises
    /\ results[1] = [label |-> "neutral", score |-> 50]
    /\ results[2].label # "neutral"


\* how many times a stage has run in the current call
TimesRun(stage) == Len(SelectSeq(executed, LAMBDA x : x = stage))

\* C12: in every successful pipeline run the batch sentiment operation is
\* invoked exactly once, on the list whose i-th element is clean_title_i,
\* one space, clean_text_i; the enriched dataset has the rows of the input
\* in the input's order, and row i's sentiment and sentiment_score are the
\* label and the score of the i-th result.
C12_BatchOnceAlignedByRow ==
    (op = "process" /\ pc = "returned") =>
        /\ TimesRun("sentiment") = 1
        /\ Len(texts) = NRows(df0)
        /\ Len(results) = NRows(df0)
        /\ NRows(ret.df) = NRows(df0)
        /\ \A i \in DOMAIN df0.rows :
              /\ texts[i] = StrCell(clean_text(df0.rows[i]["title"]).s \o <<" ">>
                                        \o clean_text(df0.rows[i]["text"]).s)
              /\ \A c \in Range(df0.cols) : ret.df.rows[i][c] = df0.rows[i][c]
              /\ ret.df.rows[i]["sentiment"] = results[i].label
              /\ ret.df.rows[i]["sentiment_score"] = results[i].score
              /\ results[i] = Owed(texts[i], useTransformers, outcomes[i])

C12_Witness ==
    /\ op = "process" /\ pc = "returned" /\ NRows(df0) = 2
    /\ texts[1] # texts[2]
    /\ df0.rows[1]["text"].k = "str" /\ clean_text(df0.rows[1]["text"]).s # <<>>
    /\ ret.df.rows[1]["sentiment"] # ret.df.rows[2]["sentiment"]
    /\ ret.df.rows[1]["sentiment_score"] # ret.df.rows[2]["sentiment_score"]


SentimentVocabulary == {"positive", "negative", "neutral"}

\* C13: in every enriched dataset returned by process_reddit_data each row's
\* sentiment is one of positive, negative, neutral and each row's
\* sentiment_score lies in [0.0, 1.0], on the TextBlob path and on the
\* transformer path alike.
C13_SentimentInVocabulary ==
    (op = "process" /\ pc = "returned" /\ fault = "none") =>
        \A i \in DOMAIN ret.df.rows :
            /\ ret.df.rows[i]["sentiment"] \in SentimentVocabulary
            /\ ret.df.rows[i]["sentiment_score"] \in 0..100


\* C14: clean_text is idempotent: cleaning an already cleaned text gives
\* the same text, also where punctuation splits a URL-like prefix.
C14_CleanIdempotent ==
    (op = "reclean") => ret.value = results[1]


Http == <<"h", "t", "t", "p">>

Contains(s, p) == \E i \in DOMAIN s : StartsAt(s, i, p)

\* an "http" with no non-whitespace character after it
BareHttp(l) ==
    \E i \in DOMAIN l :
        StartsAt(l, i, Http) /\ (i + 4 > Len(l) \/ IsSpace(l[i + 4]))

\* an "http" within one token that is spelled across punctuation
SplitHttp(l) ==
    \E i, j \in DOMAIN l :
        /\ i < j
        /\ \A k \in i..j : ~IsSpace(l[k])
        /\ \E k \in i..j : ~IsWord(l[k])
        /\ l[i] = "h" /\ l[j] = "p"
        /\ SelectSeq(SubSeq(l, i, j), IsWord) = Http

NormalForm(s) ==
    /\ \A i \in DOMAIN s : s[i] \notin UpperLetters /\ (IsWord(s[i]) \/ s[i] = " ")
    /\ s # <<>> => (s[1] # " " /\ s[Len(s)] # " ")
    /\ \A i \in 1..(Len(s) - 1) : ~(s[i] = " " /\ s[i + 1] = " ")

\* C16: clean_text never raises and always returns a string in normal form:
\* the empty string for a missing value and for any value on which a step
\* fails, otherwise a string without uppercase letters, made of word
\* characters and single spaces, with no whitespace at either end.
C16_CleanNeverRaisesNormalForm ==
    (op = "clean") =>
        /\ pc = "returned" /\ err = "none"
        /\ NormalForm(ret.value)
        /\ texts[1].k # "str" => ret.value = <<>>


NoDuplicates(xs) == \A i, j \in DOMAIN xs : i # j => xs[i] # xs[j]

\* h is the maximal run of word characters that follows position p of s
RunAfter(s, p, h) ==
    /\ h # <<>>
    /\ p + Len(h) <= Len(s)
    /\ SubSeq(s, p + 1, p + Len(h)) = h
    /\ \A k \in DOMAIN h : IsWord(h[k])
    /\ (p + Len(h) = Len(s) \/ ~IsWord(s[p + Len(h) + 1]))

\* C17: extract_mentions(text) returns exactly the distinct handles of the
\* text, a handle being the maximal run of word characters right after an
\* '@': no handle twice, none missing, none with the '@' in it;
\* "hi @bob and @alice" gives {bob, alice}.
C17_MentionsExactlyHandles ==
    (op = "mentions" /\ texts[1].k = "str") =>
        LET s == texts[1].s IN
        /\ pc = "returned"
        /\ NoDuplicates(ret.value)
        /\ \A k \in DOMAIN ret.value :
              /\ "@" \notin Range(ret.value[k])
              /\ \E p \in DOMAIN s : s[p] = "@" /\ RunAfter(s, p, ret.value[k])
        /\ \A p \in DOMAIN s :
              (s[p] = "@" /\ p < Len(s) /\ IsWord(s[p + 1])) =>
                  \E k \in DOMAIN ret.value : RunAfter(s, p, ret.value[k])
        /\ s = 
                  <<"h", "i", " ", "@", "b", "o", "b", " ", "a", "n", "d", " ", "@", "a", "l", "i", "c", "e">> =>
              Range(ret.value) = {<<"b", "o", "b">>, <<"a", "l", "i", "c", "e">>}

C17_Witness ==
    /\ op = "mentions" /\ pc = "returned" /\ texts[1].k = "str"
    /\ Len(ret.value) = 2
    /\ \E p, q \in DOMAIN texts[1].s :
          /\ p # q
          /\ \E k \in DOMAIN ret.value :
                RunAfter(texts[1].s, p, ret.value[k]) /\ RunAfter(texts[1].s, q, ret.value[k])
          /\ texts[1].s[p] = "@" /\ texts[1].s[q] = "@"


\* the one to five letters that follow the '$' at position p of s
AfterDollar(s) ==
    {SubSeq(s, p + 1, p + n) : <<p, n>> \in
        {x \in (DOMAIN s) \X (1..5) :
            /\ s[x[1]] = "$"
            /\ x[1] + x[2] <= Len(s)
            /\ \A k \in 1..x[2] : IsLetter(s[x[1] + k])
            /\ (x[2] = 5 \/ x[1] + x[2] = Len(s) \/ ~IsLetter(s[x[1] + x[2] + 1]))}}

\* the stand-alone words of two to five uppercase letters
StandAloneCapitals(s) ==
    {SubSeq(s, p, p + n - 1) : <<p, n>> \in
        {x \in (DOMAIN s) \X (2..5) :
            /\ x[1] + x[2] - 1 <= Len(s)
            /\ \A k \in 0..(x[2] - 1) : s[x[1] + k] \in UpperLetters
            /\ (x[1] = 1 \/ ~IsWord(s[x[1] - 1]))
            /\ (x[1] + x[2] - 1 = Len(s) \/ ~IsWord(s[x[1] + x[2]]))}}

\* C18: extract_tickers(text) returns, without duplicates, the union of the
\* one to five letters following each '$' and every stand-alone word of two
\* to five uppercase letters; for "$AAPL" the result contains "AAPL".
C18_TickersUnionOfPatterns ==
    (op = "tickers" /\ texts[1].k = "str") =>
        LET s == texts[1].s IN
        /\ pc = "returned"
        /\ NoDuplicates(ret.value)
        /\ Range(ret.value) = AfterDollar(s) \cup StandAloneCapitals(s)
        /\ s = <<"$", "A", "A", "P", "L">> => <<"A", "A", "P", "L">> \in Range(ret.value)

C18_Witness ==
    /\ op = "tickers" /\ pc = "returned" /\ texts[1].k = "str"
    /\ Len(ret.value) = 2
    /\ AfterDollar(texts[1].s) \cap StandAloneCapitals(texts[1].s) # {}
    /\ AfterDollar(texts[1].s) # StandAloneCapitals(texts[1].s)


\* C19: for every row of a validated dataset calculate_engagement_metrics
\* sets engagement_score to (score * 1.0 + num_comments * 2.0) *
\* upvote_ratio (score 100, num_comments 50, upvote_ratio 0.95 give 190.0),
\* hour_of_day to the hour of created_utc, within 0..23, day_of_week to the
\* day name of created_utc, and leaves score, num_comments, upvote_ratio
\* and the other input columns of the row as they were.
C19_EngagementFormula ==
    (op = "engage" /\ fault = "none" /\ ValidatorAccepts(df0)) =>
        /\ pc = "returned"
        /\ NRows(ret.df) = NRows(df0)
        /\ Range(ret.df.cols) =
              Range(df0.cols) \cup {"engagement_score", "hour_of_day", "day_of_week"}
        /\ \A i \in DOMAIN df0.rows :
              LET before == df0.rows[i]
                  after == ret.df.rows[i]
              IN  /\ after["engagement_score"] =
                        (before["score"] + 2 * before["num_comments"]) * before["upvote_ratio"]
                  /\ (before["score"] = 100 /\ before["num_comments"] = 50
                         /\ before["upvote_ratio"] = 95) => after["engagement_score"] = 19000
                  /\ after["hour_of_day"] \in 0..23
                  /\ after["hour_of_day"] = before["created_utc"] % 24
                  /\ after["day_of_week"] = DayNames[((before["created_utc"] \div 24) % 7) + 1]
                  /\ \A c \in Range(df0.cols) : after[c] = before[c]

C19_Witness ==
    /\ op = "engage" /\ pc = "returned" /\ fault = "none" /\ ValidatorAccepts(df0)
    /\ NRows(df0) = 2
    /\ df0.rows[1]["score"] = 100 /\ ret.df.rows[1]["engagement_score"] = 19000
    /\ ret.df.rows[2]["day_of_week"] # ret.df.rows[1]["day_of_week"]
    /\ ret.df.rows[2]["hour_of_day"] # ret.df.rows[1]["hour_of_day"]


\* how many times the token w appears in the texts of the call, lowercased
Appearances(w) ==
    LET all == Split(Lower(Join([i \in DOMAIN texts |-> texts[i].s])))
    IN  Cardinality({i \in DOMAIN all : all[i] = w})

\* the call C20 describes
BitcoinFiveAiThree ==
    /\ op = "topics" /\ pc = "returned" /\ ret.min_count = 3
    /\ \A i \in DOMAIN texts : texts[i].k = "str"
    /\ Appearances(Bitcoin) = 5 /\ Appearances(Ai) = 3

Tokens == Split(Lower(Join([i \in DOMAIN texts |-> texts[i].s])))

\* where the token w is first encountered
FirstSeen(w) == CHOOSE i \in DOMAIN Tokens :
                    Tokens[i] = w /\ \A k \in 1..(i - 1) : Tokens[k] # w

StopWordList ==
    {<<"t", "h", "e">>, <<"a", "n", "d">>, <<"i", "s">>, <<"i", "n">>,
     <<"t", "o">>, <<"a">>, <<"f", "o", "r">>}

\* C21: identify_trending_topics(texts, min_count) returns one entry for
\* each distinct lowercased whitespace-delimited token that is no stop
\* word, is longer than 2 and occurs at least min_count times, with its
\* exact count; no other token appears; the entries are in descending
\* order of count and entries of equal count are in the order in which
\* their tokens were first encountered.
C21_TrendingTopicsExact ==
    (op = "topics" /\ \A i \in DOMAIN texts : texts[i].k = "str") =>
        LET out   == ret.value
            toks  == Tokens
            times == [t \in Range(toks) |-> Cardinality({i \in DOMAIN toks : toks[i] = t})]
            first == [t \in Range(toks) |->
                        CHOOSE i \in DOMAIN toks :
                            toks[i] = t /\ \A k \in 1..(i - 1) : toks[k] # t]
        IN
        /\ pc = "returned"
        /\ \A i, j \in DOMAIN out : i # j => out[i].topic # out[j].topic
        /\ {out[i].topic : i \in DOMAIN out} =
              {t \in Range(toks) :
                  t \notin StopWordList /\ Len(t) > 2 /\ times[t] >= ret.min_count}
        /\ \A i \in DOMAIN out : out[i].count = times[out[i].topic]
        /\ \A i, j \in DOMAIN out :
              i < j => \/ out[i].count > out[j].count
                       \/ /\ out[i].count = out[j].count
                          /\ first[out[i].topic] < first[out[j].topic]

C21_Witness ==
    /\ op = "topics" /\ pc = "returned"
    /\ \A i \in DOMAIN texts : texts[i].k = "str"
    /\ Len(ret.value) = 2
    /\ ret.value[1].count > ret.value[2].count
    /\ FirstSeen(ret.value[1].topic) > FirstSeen(ret.value[2].topic)
    /\ Appearances(<<"t", "h", "e">>) >= ret.min_count
    /\ Appearances(Ai) >= ret.min_count


\* insights that are not the empty dictionary of a failed aggregation
NonDegraded(ins) == DOMAIN ins # {}

RECURSIVE SumOver(_, _)
SumOver(f, S) ==
    IF S = {} THEN 0
    ELSE LET x == CHOOSE y \in S : TRUE IN f[x] + SumOver(f, S \ {x})

\* C22: in non-degraded insights sentiment_distribution maps each label
\* that occurs in the enriched dataset to the number of posts carrying it:
\* every count is at least 1, a label no post carries is absent, and the
\* counts sum to the number of rows.
C22_SentimentDistribution ==
    (op \in {"insights", "process"} /\ pc = "returned" /\ NonDegraded(ret.insights)) =>
        LET dist == ret.insights.sentiment_distribution IN
        /\ DOMAIN dist = {obj.rows[i]["sentiment"] : i \in DOMAIN obj.rows}
        /\ \A l \in DOMAIN dist :
              /\ dist[l] >= 1
              /\ dist[l] = Cardinality({i \in DOMAIN obj.rows : obj.rows[i]["sentiment"] = l})
        /\ SumOver(dist, DOMAIN dist) = NRows(obj)

C22_Witness ==
    /\ op = "insights" /\ pc = "returned" /\ NonDegraded(ret.insights)
    /\ NRows(obj) = 3
    /\ DOMAIN ret.insights.sentiment_distribution = {"positive", "negative"}
    /\ ret.insights.sentiment_distribution["positive"] = 2


\* the tickers of the posts of the dataset, and in how many posts each is
TickersPresent == UNION {obj.rows[i]["tickers"] : i \in DOMAIN obj.rows}

PostsWith(t) == Cardinality({i \in DOMAIN obj.rows : t \in obj.rows[i]["tickers"]})

\* C23: in non-degraded insights top_tickers has at most 10 entries, each
\* mapping a ticker to the number of posts whose tickers contain it (a
\* ticker present in 5 posts counts 5), and no ticker left out has a
\* strictly larger count than one that is included.
C23_TopTickers ==
    (op = "insights" /\ pc = "returned" /\ NonDegraded(ret.insights)) =>
        LET tt == ret.insights.top_tickers IN
        /\ Cardinality(DOMAIN tt) <= 10
        /\ Cardinality(DOMAIN tt) = Min(10, Cardinality(TickersPresent))
        /\ DOMAIN tt \subseteq TickersPresent
        /\ \A t \in DOMAIN tt : tt[t] = PostsWith(t)
        /\ \A t \in DOMAIN tt, u \in TickersPresent \ DOMAIN tt : PostsWith(u) <= tt[t]

C23_Witness ==
    /\ op = "insights" /\ pc = "returned" /\ NonDegraded(ret.insights)
    /\ Cardinality(TickersPresent) = 11
    /\ Cardinality(DOMAIN ret.insights.top_tickers) = 10
    /\ <<"A", "A">> \in DOMAIN ret.insights.top_tickers
    /\ ret.insights.top_tickers[<<"A", "A">>] = 5
    /\ ret.insights.top_tickers[<<"A", "B">>] = 2


\* tp lists posts of the dataset as entries {title, field}, field holding
\* the post's value of column col: the posts of highest engagement_score,
\* in descending order of it, each post at most once
ListsTopPosts(tp, field, col) ==
    LET eng(k) == obj.rows[k]["engagement_score"]
        \* the rows an entry may stand for
        RowsOf(e) == {i \in DOMAIN obj.rows :
                         obj.rows[i]["title"] = e["title"] /\ obj.rows[i][col] = e[field]}
        Same(e) == {k \in DOMAIN tp : tp[k] = e}
        low == IF tp = <<>> THEN 0
               ELSE CHOOSE v \in {eng(i) : i \in DOMAIN obj.rows} :
                        \E i \in RowsOf(tp[Len(tp)]) : eng(i) = v
    IN  /\ \A k \in DOMAIN tp :
              /\ DOMAIN tp[k] = {"title", field}
              /\ RowsOf(tp[k]) # {}
              /\ Cardinality(Same(tp[k])) <= Cardinality(RowsOf(tp[k]))
              /\ (\A i \in RowsOf(tp[k]) : eng(i) > low) =>
                     Cardinality(Same(tp[k])) = Cardinality(RowsOf(tp[k]))
        /\ \A a, b \in DOMAIN tp :
              a < b => \A i \in RowsOf(tp[a]), j \in RowsOf(tp[b]) : eng(i) >= eng(j)
        /\ Cardinality({i \in DOMAIN obj.rows : eng(i) > low}) < Max(Len(tp), 1)
        /\ \A i \in DOMAIN obj.rows :
              eng(i) > low => \E k \in DOMAIN tp : i \in RowsOf(tp[k])

\* C24 as stated: top_posts has min(5, number of posts) entries, the posts
\* of highest engagement_score in descending order, each entry made of the
\* post's title and its score only.
C24_TopPostsTitleAndScore ==
    (op = "insights" /\ pc = "returned" /\ NonDegraded(ret.insights)) =>
        /\ Len(ret.insights.engagement_stats.top_posts) = Min(5, NRows(obj))
        /\ ListsTopPosts(ret.insights.engagement_stats.top_posts, "score", "score")

\* C24, amended: the same, each entry made of the post's title and its
\* engagement_score only.
C24_TopPostsTitleAndEngagement ==
    (op = "insights" /\ pc = "returned" /\ NonDegraded(ret.insights)) =>
        /\ Len(ret.insights.engagement_stats.top_posts) = Min(5, NRows(obj))
        /\ ListsTopPosts(ret.insights.engagement_stats.top_posts,
                         "engagement_score", "engagement_score")

C24_Witness ==
    /\ op = "insights" /\ pc = "returned" /\ NonDegraded(ret.insights)
    /\ NRows(obj) = 6
    /\ Len(ret.insights.engagement_stats.top_posts) = 5
    /\ ret.insights.engagement_stats.top_posts[1]["engagement_score"] = 26400
    /\ ret.insights.engagement_stats.top_posts[5]["engagement_score"] = 19000
    /\ \E i \in DOMAIN obj.rows : obj.rows[i]["engagement_score"] = 100


\* how many posts of the dataset given fall into a bucket
PostsInHour(h) == Cardinality({i \in DOMAIN df0.rows : df0.rows[i]["created_utc"] % 24 = h})

PostsOnDay(d) ==
    Cardinality({i \in DOMAIN df0.rows :
                    DayNames[((df0.rows[i]["created_utc"] \div 24) % 7) + 1] = d})

\* C25: for a non-empty enriched dataset peak_hour is an hour with the
\* largest number of posts and low_hour one with the smallest number among
\* the hours that have a post, and likewise peak_day and low_day; when the
\* time metrics cannot be computed (an empty dataset, a created_utc that is
\* no datetime) they are empty hourly, daily and weekly maps, nothing is
\* raised and the other insights are still produced.
C25_TimeMetrics ==
    (op = "insights" /\ pc = "returned") =>
        /\ err = "none"
        /\ NonDegraded(ret.insights)
        /\ {"time_metrics", "trending_topics", "sentiment_distribution", "top_tickers",
            "engagement_stats"} = DOMAIN ret.insights
        /\ (NRows(df0) > 0 /\ df0.dtype["created_utc"] = "datetime") =>
              LET hourly == ret.insights.time_metrics.hourly
                  daily  == ret.insights.time_metrics.daily
              IN  /\ PostsInHour(hourly.peak_hour) >= 1
                  /\ PostsInHour(hourly.low_hour) >= 1
                  /\ \A h \in 0..23 :
                        /\ PostsInHour(h) <= PostsInHour(hourly.peak_hour)
                        /\ PostsInHour(h) >= 1 => PostsInHour(h) >= PostsInHour(hourly.low_hour)
                  /\ PostsOnDay(daily.peak_day) >= 1
                  /\ PostsOnDay(daily.low_day) >= 1
                  /\ \A d \in Range(DayNames) :
                        /\ PostsOnDay(d) <= PostsOnDay(daily.peak_day)
                        /\ PostsOnDay(d) >= 1 => PostsOnDay(d) >= PostsOnDay(daily.low_day)
        /\ (NRows(df0) = 0 \/ df0.dtype["created_utc"] # "datetime") =>
              /\ DOMAIN ret.insights.time_metrics = {"hourly", "daily", "weekly"}
              /\ DOMAIN ret.insights.time_metrics.hourly = {}
              /\ DOMAIN ret.insights.time_metrics.daily = {}
              /\ DOMAIN ret.insights.time_metrics.weekly = {}

C25_Witness ==
    /\ op = "insights" /\ pc = "returned" /\ NonDegraded(ret.insights)
    /\ NRows(df0) = 3 /\ df0.dtype["created_utc"] = "datetime"
    /\ PostsInHour(ret.insights.time_metrics.hourly.peak_hour) = 2
    /\ PostsInHour(ret.insights.time_metrics.hourly.low_hour) = 1
    /\ PostsOnDay(ret.insights.time_metrics.daily.peak_day) = 2
    /\ PostsOnDay(ret.insights.time_metrics.daily.low_day) = 1


\* C26: for a validated dataset and a classifier that answers each text,
\* process_reddit_data returns an enriched dataset with the columns
\* clean_title, clean_text, mentions, tickers, engagement_score, sentiment
\* and sentiment_score, and insights with trending_topics, a
\* sentiment_distribution that is non-empty when there is a post, and
\* engagement_stats whose top_posts has at most 5 entries.
C26_EndToEnd ==
    (op = "process" /\ pc \in {"returned", "raised"} /\ fault = "none"
        /\ ValidatorAccepts(df0) /\ \A i \in DOMAIN outcomes : ~outcomes[i].raises) =>
        /\ pc = "returned"
        /\ {"clean_title", "clean_text", "mentions", "tickers", "engagement_score",
            "sentiment", "sentiment_score"} \subseteq Range(ret.df.cols)
        /\ {"trending_topics", "sentiment_distribution", "engagement_stats"}
              \subseteq DOMAIN ret.insights
        /\ NRows(df0) > 0 => DOMAIN ret.insights.sentiment_distribution # {}
        /\ Len(ret.insights.engagement_stats.top_posts) <= 5


\* C27: get(k) after the last set(k, v) at t0 returns v while less than
\* cache_duration seconds have passed since t0 and None from then on, however
\* much later, and get of a key that was never set returns None
C27_CacheExpiry ==
    (op = "get") =>
        IF ret.key \in DOMAIN cache_times
            THEN IF ret.at - cache_times[ret.key] < cache_duration
                    THEN ret.value = cache[ret.key]
                    ELSE ret.value = "None"
            ELSE ret.value = "None"


\* the stages of process_reddit_data, in the order of its statements
Stages == <<"validate", "clean", "extract", "engage", "sentiment", "attach", "insights">>

IsPrefix(s, t) == Len(s) <= Len(t) /\ \A i \in DOMAIN s : s[i] = t[i]

\* the derived columns of a dataset, in the order the dataset holds them
DerivedOf(cols) == SelectSeq(cols, LAMBDA c : c \in Range(DerivedOrder))

\* C28: process_reddit_data runs validate, clean, extract, engage, sentiment,
\* attach, insights in that order and none twice; the derived columns are
\* added in the order clean_title, clean_text, mentions, tickers,
\* engagement_score, hour_of_day, day_of_week, sentiment, sentiment_score; and
\* the insights are computed from the dataset that holds all of them
C28_StageOrder ==
    (op = "process") =>
        /\ IsPrefix(executed, Stages)
        /\ pc \in Range(Stages) => (Len(executed) < Len(Stages) /\ pc = Stages[Len(executed) + 1])
        /\ pc = "returned" => executed = Stages
        /\ fault = "none" =>
              /\ IsPrefix(DerivedOf(obj.cols), DerivedOrder)
              /\ pc = "insights" => DerivedOf(obj.cols) = DerivedOrder
              /\ pc = "returned" => DerivedOf(ret.df.cols) = DerivedOrder

C28_Witness ==
    /\ op = "process"
    /\ pc = "returned"
    /\ fault = "none"
    /\ executed = Stages
    /\ NRows(df0) >= 2
    /\ DerivedOf(df0.cols) = <<>>
    /\ DerivedOf(ret.df.cols) = DerivedOrder


\* the characters the mention and ticker patterns need
ExtractionChars == {"@", "$"} \cup UpperLetters

\* C29: in a process_reddit_data run clean_text holds no '@', no '$' and no
\* uppercase letter, so once the features are extracted the mentions and the
\* tickers of every post are empty, and top_tickers of the insights is empty
C29_MentionsAndTickersEmpty ==
    (op = "process" /\ "tickers" \in Range(obj.cols)) =>
        /\ \A i \in DOMAIN obj.rows :
              /\ \A j \in DOMAIN obj.rows[i]["clean_text"] :
                    obj.rows[i]["clean_text"][j] \notin ExtractionChars
              /\ obj.rows[i]["mentions"] = {}
              /\ obj.rows[i]["tickers"] = {}
        /\ (pc = "returned" /\ "top_tickers" \in DOMAIN ret.insights) =>
              DOMAIN ret.insights.top_tickers = {}

C29_Witness ==
    /\ op = "process"
    /\ pc = "returned"
    /\ \E i \in DOMAIN df0.rows :
          /\ df0.rows[i]["text"].k = "str"
          /\ {"@", "$"} \subseteq Range(df0.rows[i]["text"].s)
          /\ Range(df0.rows[i]["text"].s) \cap UpperLetters # {}
          /\ ret.df.rows[i]["mentions"] = {}
          /\ ret.df.rows[i]["tickers"] = {}
    /\ "top_tickers" \in DOMAIN ret.insights
    /\ DOMAIN ret.insights.top_tickers = {}


\* the keys generate_report reads from the insights unconditionally
ReportKeys == {"sentiment_distribution", "trending_topics", "engagement_stats", "time_metrics"}

\* C30: generate_report never raises; given insights that miss one of
\* sentiment_distribution, trending_topics, engagement_stats, time_metrics
\* (the degraded {} among them) it returns a dictionary whose only key is
\* 'error'; given complete insights it returns a report whose total_posts is
\* the number of rows and whose trending_topics is the first 10 trending
\* entries in their order; and it changes neither df nor insights
C30_ReportOrError ==
    (op = "report") =>
        /\ pc = "returned"
        /\ err = "none"
        /\ obj = df0
        /\ insights = ret.given
        /\ ~(ReportKeys \subseteq DOMAIN insights) => DOMAIN ret.report = {"error"}
        /\ ReportKeys \subseteq DOMAIN insights =>
              /\ "error" \notin DOMAIN ret.report
              /\ ret.report.data_summary.total_posts = NRows(df0)
              /\ ret.report.trending_topics =
                    SubSeq(insights.trending_topics, 1,
                           Min(ReportTopicsLimit, Len(insights.trending_topics)))

====
